---------------------------- MODULE Spec2Model ----------------------------
(***************************************************************************)
(* A model of lib-secs2-hsms-go: the SECS-II item tree (package ast), the  *)
(* DataMessage / ControlMessage envelopes, the HSMS binary codec (package  *)
(* hsms) and the SML lexer and parser (package sml).                       *)
(*                                                                         *)
(* Conventions                                                             *)
(*   - a Go string is a sequence of code points (naturals); a []byte is a  *)
(*     sequence of 0..255;                                                 *)
(*   - a Go interface{} value is a record [k |-> <dynamic type>, v |-> x]; *)
(*   - a Go map[string]T is a TLA+ function whose domain is a set of       *)
(*     strings; positions kept in such maps are Go's 0-based positions;    *)
(*   - a panic is the value Panic: an operator that receives Panic where   *)
(*     the Go code would never have been reached returns Panic.            *)
(***************************************************************************)
EXTENDS Integers, Sequences, FiniteSets, TLC

----------------------------------------------------------------------------
(* Generic helpers on sequences and maps                                   *)

\* Let([x \in {e} |-> b]) is b with x standing for the value of e
Let(f) == f[CHOOSE x \in DOMAIN f : TRUE]

Range(s) == {s[i] : i \in DOMAIN s}

Min2(a, b) == IF a < b THEN a ELSE b

EmptyMap == <<>>

HasKey(m, k) == k \in DOMAIN m

MapPut(m, k, v) == [x \in (DOMAIN m) \cup {k} |-> IF x = k THEN v ELSE m[x]]

RECURSIVE Concat(_)
Concat(ss) == IF ss = <<>> THEN <<>> ELSE Head(ss) \o Concat(Tail(ss))

\* strings.Repeat
Repeat(s, n) == [i \in 1..(n * Len(s)) |-> s[((i - 1) % Len(s)) + 1]]

HasPrefix(s, p) == Len(s) >= Len(p) /\ SubSeq(s, 1, Len(p)) = p

\* strings.Index: the 0-based position of the first occurrence of sub in s,
\* or -1
IndexOf(s, sub) ==
    LET hits == {i \in 0..(Len(s) - Len(sub)) :
                    SubSeq(s, i + 1, i + Len(sub)) = sub}
    IN IF hits = {} THEN -1 ELSE CHOOSE i \in hits : \A j \in hits : i <= j

\* strings.IndexAny
IndexAny(s, chars) ==
    LET hits == {i \in 0..(Len(s) - 1) : s[i + 1] \in chars}
    IN IF hits = {} THEN -1 ELSE CHOOSE i \in hits : \A j \in hits : i <= j

----------------------------------------------------------------------------
(* Characters                                                              *)

Digits == 48..57
UpperCase == 65..90
LowerCase == 97..122
Letters == UpperCase \cup LowerCase
WordChars == Letters \cup Digits \cup {95}          \* regexp \w
SpaceChars == {9, 10, 11, 12, 13, 32}               \* unicode.IsSpace, ASCII
LexSpace == {32, 9, 13, 10}                         \* ' ', '\t', '\r', '\n'

ToUpperCh(c) == IF c \in LowerCase THEN c - 32 ELSE c
ToUpper(s) == [i \in DOMAIN s |-> ToUpperCh(s[i])]

\* fmt.Sprintf("%d", n) / strconv.Itoa for any integer of the model
RECURSIVE ItoaNat(_)
ItoaNat(n) == IF n < 10 THEN <<48 + n>> ELSE ItoaNat(n \div 10) \o <<48 + (n % 10)>>
Itoa(n) == IF n < 0 THEN <<45>> \o ItoaNat(0 - n) ELSE ItoaNat(n)

----------------------------------------------------------------------------
(* Variable names (interface.go)                                           *)

\* the length of the longest run of characters of cs in s from 1-based i
RECURSIVE RunLen(_, _, _)
RunLen(s, i, cs) ==
    IF i <= Len(s) /\ s[i] \in cs THEN 1 + RunLen(s, i + 1, cs) ELSE 0

\* regexp ^(\[\d+\])*  : the number of characters the array tags starting at
\* 1-based i take (0 when there is none)
RECURSIVE TagsLen(_, _)
TagsLen(s, i) ==
    IF i <= Len(s) /\ s[i] = 91
    THEN LET d == RunLen(s, i + 1, Digits)
         IN IF d >= 1 /\ i + 1 + d <= Len(s) /\ s[i + 1 + d] = 93
            THEN d + 2 + TagsLen(s, i + d + 2)
            ELSE 0
    ELSE 0

\* regexp ^(\[\d+\])? : one tag at most
OneTagLen(s, i) ==
    IF i <= Len(s) /\ s[i] = 91
    THEN LET d == RunLen(s, i + 1, Digits)
         IN IF d >= 1 /\ i + 1 + d <= Len(s) /\ s[i + 1 + d] = 93
            THEN d + 2
            ELSE 0
    ELSE 0

Dots3 == <<46, 46, 46>>

\* regexp ^[A-Za-z_]\w*(\[\d+\])*$
isValidVarName(name) ==
    /\ Len(name) >= 1
    /\ name[1] \in Letters \cup {95}
    /\ LET w == RunLen(name, 2, WordChars)
       IN 1 + w + TagsLen(name, 2 + w) = Len(name)

\* regexp ^\.{3}(\[\d+\])?$
isEllipsis(name) ==
    /\ HasPrefix(name, Dots3)
    /\ 3 + OneTagLen(name, 4) = Len(name)

----------------------------------------------------------------------------
(* Go values and the item representation                                   *)

GoV(kind, x) == [k |-> kind, v |-> x]
GoInt(x) == GoV("int", x)
GoStr(s) == GoV("string", s)
GoBool(b) == GoV("bool", b)
GoItem(it) == GoV("item", it)

SignedKinds == {"int", "int8", "int16", "int32", "int64"}
UnsignedKinds == {"uint", "uint8", "uint16", "uint32", "uint64"}
IntKinds == SignedKinds \cup UnsignedKinds
FloatKinds == {"float32", "float64"}

Panic == [typ |-> "panic"]
IsPanic(x) == x.typ = "panic"

MAX_BYTE_SIZE == 16777215

\* emptyItemNode{}
NewEmptyItemNode == [typ |-> "empty"]

\* the variable names among constructor arguments, with Go's map semantics:
\* nodeVariables[value] = i
VarArgs(values) == {i \in DOMAIN values : values[i].k = "string"}
DupVarArgs(values) ==
    \E i, j \in VarArgs(values) : i < j /\ values[i].v = values[j].v
VarMapOf(values) ==
    [n \in {values[i].v : i \in VarArgs(values)} |->
        (CHOOSE i \in VarArgs(values) : values[i].v = n) - 1]

\* the inverse map position -> name (ListNode.variablesSwapKeyValue)
variablesSwapKeyValue(variables) ==
    [p \in {variables[n] : n \in DOMAIN variables} |->
        CHOOSE n \in DOMAIN variables : variables[n] = p]

\* sort.Slice by position: the names of a node in positional order
RECURSIVE NamesFrom(_, _, _)
NamesFrom(posVar, i, size) ==
    IF i >= size THEN <<>>
    ELSE (IF i \in DOMAIN posVar THEN <<posVar[i]>> ELSE <<>>)
         \o NamesFrom(posVar, i + 1, size)

getVariableNames(variables) ==
    LET posVar == variablesSwapKeyValue(variables)
        top == IF DOMAIN posVar = {} THEN 0
               ELSE 1 + CHOOSE p \in DOMAIN posVar : \A q \in DOMAIN posVar : q <= p
    IN NamesFrom(posVar, 0, top)

bytePerValue(typ) ==
    CASE typ \in {"list", "binary", "boolean", "ascii", "i1", "u1"} -> 1
      [] typ \in {"i2", "u2"} -> 2
      [] typ \in {"i4", "u4", "f4"} -> 4
      [] typ \in {"i8", "u8", "f8"} -> 8
      [] OTHER -> 0

getDataByteLength(typ, size) == size * bytePerValue(typ)

formatCode(typ) ==
    CASE typ = "list" -> 0
      [] typ = "binary" -> 8
      [] typ = "boolean" -> 9
      [] typ = "ascii" -> 16
      [] typ = "i8" -> 24
      [] typ = "i1" -> 25
      [] typ = "i2" -> 26
      [] typ = "i4" -> 28
      [] typ = "f8" -> 32
      [] typ = "f4" -> 36
      [] typ = "u8" -> 40
      [] typ = "u1" -> 41
      [] typ = "u2" -> 42
      [] typ = "u4" -> 44
      [] OTHER -> 0

\* a getHeaderBytes that keeps all three length bytes
getHeaderBytesThree(typ, size) ==
    LET dataByteLength == getDataByteLength(typ, size)
    IN IF dataByteLength > MAX_BYTE_SIZE THEN <<>>
       ELSE <<(formatCode(typ) * 4 + 3) % 256,
              (dataByteLength \div 65536) % 256,
              (dataByteLength \div 256) % 256,
              dataByteLength % 256>>

\* getHeaderBytes: the format byte and the length bytes; <<>> stands for the
\* error return
getHeaderBytes(typ, size) ==
    Let([dataByteLength \in {getDataByteLength(typ, size)} |->
    LET b0 == (dataByteLength \div 65536) % 256
        b1 == (dataByteLength \div 256) % 256
        b2 == dataByteLength % 256
        lengthBytes == IF b0 = 0
                       THEN IF b1 = 0 THEN <<b2>> ELSE <<b1, b2>>
                       ELSE <<b0, b1, b2>>
    IN IF dataByteLength > MAX_BYTE_SIZE THEN <<>>
       ELSE <<(formatCode(typ) * 4 + Len(lengthBytes)) % 256>> \o lengthBytes])

\* byte(bits >> (i*8)) of a two's complement integer
RECURSIVE ShiftRight8(_, _)
ShiftRight8(v, i) == IF i = 0 THEN v ELSE ShiftRight8(v \div 256, i - 1)
ByteOf(v, i) ==
    IF v >= 0 THEN ShiftRight8(v, i) % 256
    ELSE 255 - (ShiftRight8((0 - v) - 1, i) % 256)

\* the big-endian bytes of v in byteSize bytes
BigEndian(v, byteSize) == [j \in 1..byteSize |-> ByteOf(v, byteSize - j)]


----------------------------------------------------------------------------
(* Scalar item nodes: constructors and representation invariants           *)
(*                                                                         *)
(* Integers of the model stay within 32 bits; an int64 / uint64 of the     *)
(* code is represented by its value when that value fits.  A negative      *)
(* value held by a UintNode stands for the bit pattern uint64(value).      *)
(* Floats of the model are the integer-valued floats of small magnitude    *)
(* and a few floats held by codes.                                         *)

\* fmt.Sprintf("i%d", byteSize) and friends
numType(prefix, byteSize) ==
    CASE prefix = "i" /\ byteSize = 1 -> "i1"
      [] prefix = "i" /\ byteSize = 2 -> "i2"
      [] prefix = "i" /\ byteSize = 4 -> "i4"
      [] prefix = "i" /\ byteSize = 8 -> "i8"
      [] prefix = "u" /\ byteSize = 1 -> "u1"
      [] prefix = "u" /\ byteSize = 2 -> "u2"
      [] prefix = "u" /\ byteSize = 4 -> "u4"
      [] prefix = "u" /\ byteSize = 8 -> "u8"
      [] prefix = "f" /\ byteSize = 4 -> "f4"
      [] prefix = "f" /\ byteSize = 8 -> "f8"
      [] OTHER -> "unknown"

\* 1<<(byteSize*8-1) - 1, saturated at the largest integer of the model (2^31 - 1)
IntMaxOf(byteSize) ==
    CASE byteSize = 1 -> 127
      [] byteSize = 2 -> 32767
      [] OTHER -> 2147483647

\* -1 << (byteSize*8 - 1), saturated likewise
IntMinOf(byteSize) ==
    CASE byteSize = 1 -> 0 - 128
      [] byteSize = 2 -> 0 - 32768
      [] OTHER -> 0 - 2147483647

\* 1<<(byteSize*8) - 1, saturated likewise
UintMaxOf(byteSize) ==
    CASE byteSize = 1 -> 255
      [] byteSize = 2 -> 65535
      [] OTHER -> 2147483647

\* the part of every checkRep that concerns the variables map: the value at
\* a variable position is the zero value and the name is a valid one
variablesCheckRep(values, variables, zero) ==
    \A name \in DOMAIN variables :
        /\ values[variables[name] + 1] = zero
        /\ isValidVarName(name)
        /\ 0 <= variables[name] /\ variables[name] < Len(values)

\* the values slice a numeric constructor builds: a variable name leaves the
\* zero value at its position
NodeValues(values, zero) ==
    [i \in DOMAIN values |-> IF values[i].k = "string" THEN zero ELSE values[i].v]

IntNodeCheckRep(node) ==
    /\ node.byteSize \in {1, 2, 4, 8}
    /\ \A i \in DOMAIN node.values :
          IntMinOf(node.byteSize) <= node.values[i]
          /\ node.values[i] <= IntMaxOf(node.byteSize)
    /\ variablesCheckRep(node.values, node.variables, 0)

NewIntNode(byteSize, values) ==
    IF getDataByteLength(numType("i", byteSize), Len(values)) > MAX_BYTE_SIZE
    THEN Panic
    ELSE IF \E i \in DOMAIN values : values[i].k \notin IntKinds \cup {"string"}
    THEN Panic
    ELSE IF DupVarArgs(values) THEN Panic
    ELSE Let([node \in {[typ |-> "int", byteSize |-> byteSize,
                         values |-> NodeValues(values, 0),
                         variables |-> VarMapOf(values)]} |->
            IF IntNodeCheckRep(node) THEN node ELSE Panic])

\* a negative value converted by uint64() exceeds every maximum but that of
\* 8 bytes
UintNodeCheckRep(node) ==
    /\ node.byteSize \in {1, 2, 4, 8}
    /\ \A i \in DOMAIN node.values :
          IF node.values[i] < 0 THEN node.byteSize = 8
          ELSE node.values[i] <= UintMaxOf(node.byteSize)
    /\ variablesCheckRep(node.values, node.variables, 0)

NewUintNode(byteSize, values) ==
    IF getDataByteLength(numType("u", byteSize), Len(values)) > MAX_BYTE_SIZE
    THEN Panic
    ELSE IF \E i \in DOMAIN values : values[i].k \notin IntKinds \cup {"string"}
    THEN Panic
    ELSE IF DupVarArgs(values) THEN Panic
    ELSE Let([node \in {[typ |-> "uint", byteSize |-> byteSize,
                         values |-> NodeValues(values, 0),
                         variables |-> VarMapOf(values)]} |->
            IF UintNodeCheckRep(node) THEN node ELSE Panic])

\* The floats outside the integer-valued ones are held by codes: a finite
\* float64 above math.MaxFloat32 (and its negative), the two infinities and
\* NaN.
FloatHuge == 536870912
FloatInf == 1073741824
FloatNaN == 1073741825

\* math.IsInf(v, 0)
IsInf(v) == v \in {FloatInf, 0 - FloatInf}

\* math.IsNaN(v)
IsNaN(v) == v = FloatNaN

\* -max <= v && v <= max of a float that is neither infinite nor NaN, max
\* being math.MaxFloat32 for 4 bytes and math.MaxFloat64 for 8
floatInRange(byteSize, v) == byteSize = 4 => v \notin {FloatHuge, 0 - FloatHuge}

FloatNodeCheckRep(node) ==
    /\ node.byteSize \in {4, 8}
    /\ \A i \in DOMAIN node.values :
          /\ ~IsInf(node.values[i])
          /\ ~IsNaN(node.values[i])
          /\ floatInRange(node.byteSize, node.values[i])
    /\ variablesCheckRep(node.values, node.variables, 0)

NewFloatNode(byteSize, values) ==
    IF getDataByteLength(numType("f", byteSize), Len(values)) > MAX_BYTE_SIZE
    THEN Panic
    ELSE IF \E i \in DOMAIN values :
                values[i].k \notin IntKinds \cup FloatKinds \cup {"string"}
    THEN Panic
    ELSE IF DupVarArgs(values) THEN Panic
    ELSE Let([node \in {[typ |-> "float", byteSize |-> byteSize,
                         values |-> NodeValues(values, 0),
                         variables |-> VarMapOf(values)]} |->
            IF FloatNodeCheckRep(node) THEN node ELSE Panic])

\* strconv.ParseInt(v, 0, 0) of a string that starts with "0b", the error
\* ignored: the value of the binary digits, 0 on a syntax error
RECURSIVE BinDigitsValue(_, _)
BinDigitsValue(s, acc) ==
    IF s = <<>> THEN acc ELSE BinDigitsValue(Tail(s), 2 * acc + (Head(s) - 48))

ParseBinaryLiteral(v) ==
    LET ds == SubSeq(v, 3, Len(v))
    IN IF ds # <<>> /\ Len(ds) <= 30 /\ \A i \in DOMAIN ds : ds[i] \in {48, 49}
       THEN BinDigitsValue(ds, 0)
       ELSE 0

ZeroB == <<48, 98>>

\* a string argument of NewBinaryNode is a variable name unless it starts
\* with "0b"
BinVarArgs(values) ==
    [i \in DOMAIN values |->
        IF values[i].k = "string" /\ HasPrefix(values[i].v, ZeroB)
        THEN GoInt(ParseBinaryLiteral(values[i].v))
        ELSE values[i]]

BinaryNodeCheckRep(node) ==
    /\ \A i \in DOMAIN node.values : 0 <= node.values[i] /\ node.values[i] < 256
    /\ variablesCheckRep(node.values, node.variables, 0)

NewBinaryNode(values) ==
    IF getDataByteLength("binary", Len(values)) > MAX_BYTE_SIZE THEN Panic
    ELSE IF \E i \in DOMAIN values : values[i].k \notin {"int", "string"}
    THEN Panic
    ELSE Let([args \in {BinVarArgs(values)} |->
            IF DupVarArgs(args) THEN Panic
            ELSE Let([node \in {[typ |-> "binary",
                                 values |-> NodeValues(args, 0),
                                 variables |-> VarMapOf(args)]} |->
                    IF BinaryNodeCheckRep(node) THEN node ELSE Panic])])

BooleanNodeCheckRep(node) ==
    variablesCheckRep(node.values, node.variables, FALSE)

NewBooleanNode(values) ==
    IF getDataByteLength("binary", Len(values)) > MAX_BYTE_SIZE THEN Panic
    ELSE IF \E i \in DOMAIN values : values[i].k \notin {"bool", "string"}
    THEN Panic
    ELSE IF DupVarArgs(values) THEN Panic
    ELSE Let([node \in {[typ |-> "boolean",
                         values |-> NodeValues(values, FALSE),
                         variables |-> VarMapOf(values)]} |->
            IF BooleanNodeCheckRep(node) THEN node ELSE Panic])

NoASCIIVariable == [name |-> <<>>, minLength |-> 0, maxLength |-> 0]

ASCIINodeCheckRep(node) ==
    IF node.isValue
    THEN /\ node.variable = NoASCIIVariable
         /\ \A i \in DOMAIN node.value : node.value[i] <= 127
    ELSE /\ node.value = <<>>
         /\ isValidVarName(node.variable.name)
         /\ node.variable.minLength >= 0
         /\ node.variable.maxLength >= 0 - 1
         /\ node.variable.maxLength # 0 - 1
                => node.variable.minLength <= node.variable.maxLength

NewASCIINode(str) ==
    IF getDataByteLength("ascii", Len(str)) > MAX_BYTE_SIZE THEN Panic
    ELSE LET node == [typ |-> "ascii", value |-> str,
                      variable |-> NoASCIIVariable, isValue |-> TRUE]
         IN IF ASCIINodeCheckRep(node) THEN node ELSE Panic

NewASCIINodeVariable(name, minLength, maxLength) ==
    LET node == [typ |-> "ascii", value |-> <<>>,
                 variable |-> [name |-> name, minLength |-> minLength,
                               maxLength |-> maxLength],
                 isValue |-> FALSE]
    IN IF ASCIINodeCheckRep(node) THEN node ELSE Panic

----------------------------------------------------------------------------
(* ListNode, and the operations shared by all item nodes                   *)

RECURSIVE Variables(_)
\* ItemNode.Variables(): the names in the order of the string representation
Variables(item) ==
    CASE item.typ = "list" ->
            LET posVar == variablesSwapKeyValue(item.variables)
            IN Concat([i \in DOMAIN item.values |->
                    IF item.values[i].typ = "empty"
                    THEN <<IF (i - 1) \in DOMAIN posVar THEN posVar[i - 1] ELSE <<>>>>
                    ELSE Variables(item.values[i])])
      [] item.typ = "ascii" ->
            IF item.isValue THEN <<>> ELSE <<item.variable.name>>
      [] item.typ = "empty" -> <<>>
      [] OTHER -> getVariableNames(item.variables)

\* ItemNode.Size()
Size(item) ==
    CASE item.typ = "ascii" -> IF item.isValue THEN Len(item.value) ELSE 0 - 1
      [] item.typ = "empty" -> 0
      [] OTHER -> Len(item.values)

HasDuplicates(s) == \E i, j \in DOMAIN s : i < j /\ s[i] = s[j]

ListNodeCheckRep(node) ==
    /\ \A name \in DOMAIN node.variables :
          /\ node.values[node.variables[name] + 1].typ = "empty"
          /\ \/ isValidVarName(name)
             \/ isEllipsis(name) /\ node.variables[name] # 0
    /\ Cardinality({name \in DOMAIN node.variables :
                        ~isValidVarName(name) /\ isEllipsis(name)}) <= 1
    /\ ~HasDuplicates(Variables(node))

NewListNode(values) ==
    IF getDataByteLength("list", Len(values)) > MAX_BYTE_SIZE THEN Panic
    ELSE IF \E i \in DOMAIN values : values[i].k \notin {"item", "string"}
    THEN Panic
    ELSE IF \E i \in DOMAIN values : values[i].k = "item" /\ IsPanic(values[i].v)
    THEN Panic
    ELSE IF DupVarArgs(values) THEN Panic
    ELSE Let([node \in {[typ |-> "list",
                         values |-> [i \in DOMAIN values |->
                                       IF values[i].k = "item" THEN values[i].v
                                       ELSE NewEmptyItemNode],
                         variables |-> VarMapOf(values)]} |->
            IF ListNodeCheckRep(node) THEN node ELSE Panic])

\* the argument list FillVariables of a scalar node hands to its constructor
FillArgs(node, values, kind) ==
    LET posVar == variablesSwapKeyValue(node.variables)
    IN [i \in DOMAIN node.values |->
          IF (i - 1) \in DOMAIN posVar
          THEN IF posVar[i - 1] \in DOMAIN values THEN values[posVar[i - 1]]
               ELSE GoStr(posVar[i - 1])
          ELSE GoV(kind, node.values[i])]

createNew(node, values) == \E name \in DOMAIN node.variables : name \in DOMAIN values

\* a FillVariables that leaves the node as it is
IntNodeFillNothing(node, values) == node

IntNodeFillVariables(node, values) ==
    IF ~createNew(node, values) THEN node
    ELSE NewIntNode(node.byteSize, FillArgs(node, values, "int64"))

UintNodeFillVariables(node, values) ==
    IF ~createNew(node, values) THEN node
    ELSE NewUintNode(node.byteSize, FillArgs(node, values, "uint64"))

FloatNodeFillVariables(node, values) ==
    IF ~createNew(node, values) THEN node
    ELSE NewFloatNode(node.byteSize, FillArgs(node, values, "float64"))

BinaryNodeFillVariables(node, values) ==
    IF ~createNew(node, values) THEN node
    ELSE NewBinaryNode(FillArgs(node, values, "int"))

BooleanNodeFillVariables(node, values) ==
    IF ~createNew(node, values) THEN node
    ELSE NewBooleanNode(FillArgs(node, values, "bool"))

ASCIINodeFillVariables(node, values) ==
    IF node.isValue THEN node
    ELSE IF node.variable.name \notin DOMAIN values THEN node
    ELSE LET value == values[node.variable.name]
         IN IF value.k # "string" THEN Panic
            ELSE IF Len(value.v) < node.variable.minLength THEN Panic
            ELSE IF node.variable.maxLength # 0 - 1
                    /\ node.variable.maxLength < Len(value.v) THEN Panic
            ELSE NewASCIINode(value.v)

\* FillVariables of every node but the list
ScalarFillVariables(item, values) ==
    CASE item.typ = "int" -> IntNodeFillVariables(item, values)
      [] item.typ = "uint" -> UintNodeFillVariables(item, values)
      [] item.typ = "float" -> FloatNodeFillVariables(item, values)
      [] item.typ = "binary" -> BinaryNodeFillVariables(item, values)
      [] item.typ = "boolean" -> BooleanNodeFillVariables(item, values)
      [] item.typ = "ascii" -> ASCIINodeFillVariables(item, values)
      [] OTHER -> item

\* ListNode.splitValues
ellipsisValuesOf(values) == [k \in {n \in DOMAIN values : isEllipsis(n)} |-> values[k]]
otherValuesOf(values) == [k \in {n \in DOMAIN values : ~isEllipsis(n)} |-> values[k]]

\* the ellipsis of a list node that the values name, as a set of names
FilledEllipsis(node, values) ==
    {name \in DOMAIN node.variables : isEllipsis(name) /\ name \in DOMAIN values}

RECURSIVE SumField(_, _)
SumField(rs, toFill) ==
    IF rs = <<>> THEN 0
    ELSE (IF toFill THEN Head(rs).toFill ELSE Head(rs).remaining)
         + SumField(Tail(rs), toFill)

RECURSIVE ellipsisAnalysis(_, _)
\* ListNode.ellipsisAnalysis: [toFill, remaining], or Panic when an ellipsis
\* value is not an int
ellipsisAnalysis(node, values) ==
    Let([filled \in {FilledEllipsis(node, values)} |->
    Let([unfilled \in {{name \in DOMAIN node.variables :
                           isEllipsis(name) /\ name \notin DOMAIN values}} |->
    LET lists == SelectSeq(node.values, LAMBDA it : it.typ = "list") IN
    Let([sub \in {[i \in DOMAIN lists |-> ellipsisAnalysis(lists[i], values)]} |->
       IF \E name \in filled : values[name].k # "int" THEN Panic
       ELSE IF \E i \in DOMAIN sub : IsPanic(sub[i]) THEN Panic
       ELSE LET ellipsisValue == IF filled = {} THEN 0
                                 ELSE values[CHOOSE name \in filled : TRUE].v
            IN [typ |-> "res",
                toFill |-> (IF filled = {} THEN 0 ELSE 1)
                           + (ellipsisValue + 1) * SumField(sub, TRUE),
                remaining |-> (IF unfilled = {} THEN 0 ELSE 1)
                           + (ellipsisValue + 1) * SumField(sub, FALSE)]])])])

----------------------------------------------------------------------------
(* ListNode.fillEllipsis and its fillState                                 *)

newFillState(remainingEllipsisCount) ==
    [currentDimension |-> 0, currentIndices |-> <<>>, ellipsisCount |-> 0,
     multipleEllipsis |-> remainingEllipsisCount > 1]

\* a growDimension that never takes an index up again
growDimensionAppend(state) ==
    [state EXCEPT !.currentIndices = Append(state.currentIndices, 0),
                  !.currentDimension = state.currentDimension + 1]

growDimension(state) ==
    [state EXCEPT
        !.currentIndices =
            IF state.currentDimension = Len(state.currentIndices)
            THEN Append(state.currentIndices, 0)
            ELSE [state.currentIndices EXCEPT ![state.currentDimension + 1] = 0],
        !.currentDimension = state.currentDimension + 1]

exitDimension(state) ==
    [state EXCEPT !.currentDimension = state.currentDimension - 1]

getCurrentDimensionIndex(state) == state.currentIndices[state.currentDimension]

growIndex(state) ==
    [state EXCEPT !.currentIndices[state.currentDimension] =
                        state.currentIndices[state.currentDimension] + 1]

\* the "[i][j]..." suffix of the first dim indices
RECURSIVE IndexSuffix(_, _)
IndexSuffix(indices, dim) ==
    IF dim <= 0 THEN <<>>
    ELSE IndexSuffix(indices, dim - 1) \o <<91>> \o Itoa(indices[dim]) \o <<93>>

\* a getNewVariableName that keeps every name
getNewVariableNameKeep(state, name) == [name |-> name, state |-> state]

\* fillState.getNewVariableName: the new name and the state after the call
getNewVariableName(state, name) ==
    IF isEllipsis(name)
    THEN IF state.multipleEllipsis
         THEN [name |-> Dots3 \o <<91>> \o Itoa(state.ellipsisCount) \o <<93>>,
               state |-> [state EXCEPT !.ellipsisCount = state.ellipsisCount + 1]]
         ELSE [name |-> Dots3, state |-> state]
    ELSE [name |-> name \o IndexSuffix(state.currentIndices, state.currentDimension),
          state |-> state]

\* the fill map the default case of fillEllipsis builds for a scalar node;
\* the names of a scalar node are never ellipses, so the state is unchanged
RenameMap(variables, state) ==
    [v \in Range(variables) |-> GoStr(getNewVariableName(state, v).name)]

RECURSIVE fillEllipsis(_, _, _)
RECURSIVE fillEllipsisLoop(_, _, _, _, _, _, _)

\* the loop of fillEllipsis from 0-based position i with the arguments
\* collected so far: [vals, state] or Panic
fillEllipsisLoop(node, values, ellipsisPosition, ellipsisValue, i, state, acc) ==
    IF i >= Len(node.values) THEN [typ |-> "res", vals |-> acc, state |-> state]
    ELSE IF i = ellipsisPosition /\ ellipsisValue = 0
    THEN fillEllipsisLoop(node, values, ellipsisPosition, ellipsisValue,
                          i + 1, state, acc)
    ELSE IF i = ellipsisPosition /\ state.currentDimension < 1
    THEN Panic      \* index out of range in getCurrentDimensionIndex
    ELSE IF i = ellipsisPosition /\ getCurrentDimensionIndex(state) >= ellipsisValue
    THEN fillEllipsisLoop(node, values, ellipsisPosition, ellipsisValue,
                          i + 1, exitDimension(state), acc)
    ELSE
      LET j == IF i = ellipsisPosition THEN 0 ELSE i
          st == IF i = ellipsisPosition THEN growIndex(state) ELSE state
          item == node.values[j + 1]
          posVar == variablesSwapKeyValue(node.variables) IN
      Let([sub \in {IF item.typ = "list" THEN fillEllipsis(item, values, st)
                    ELSE Panic} |->
      Let([renamed \in {
              CASE item.typ = "ascii" ->
                      getNewVariableName(st, item.variable.name)
                [] item.typ = "empty" ->
                      getNewVariableName(st,
                          IF j \in DOMAIN posVar THEN posVar[j] ELSE <<>>)
                [] OTHER -> [name |-> <<>>, state |-> st]} |->
      Let([arg \in {
              CASE item.typ = "list" -> GoItem(IF IsPanic(sub) THEN Panic ELSE sub.item)
                [] item.typ = "ascii" ->
                      IF item.isValue THEN GoItem(item)
                      ELSE GoItem(NewASCIINodeVariable(renamed.name,
                                      item.variable.minLength,
                                      item.variable.maxLength))
                [] item.typ = "empty" -> GoStr(renamed.name)
                [] OTHER ->
                      IF Variables(item) = <<>> THEN GoItem(item)
                      ELSE GoItem(ScalarFillVariables(item,
                                      RenameMap(Variables(item), st)))} |->
      LET st2 == CASE item.typ = "list" -> IF IsPanic(sub) THEN st ELSE sub.state
                   [] item.typ = "ascii" /\ ~item.isValue -> renamed.state
                   [] item.typ = "empty" -> renamed.state
                   [] OTHER -> st
      IN IF arg.k = "item" /\ IsPanic(arg.v) THEN Panic
         ELSE fillEllipsisLoop(node, values, ellipsisPosition, ellipsisValue,
                               j + 1, st2, Append(acc, arg))])])])

\* ListNode.fillEllipsis: [item, state] or Panic
fillEllipsis(node, values, state) ==
    Let([filled \in {FilledEllipsis(node, values)} |->
    LET name == CHOOSE n \in filled : TRUE
        ellipsisPosition == IF filled = {} THEN 0 - 1 ELSE node.variables[name]
    IN IF filled # {} /\ values[name].k # "int" THEN Panic
       ELSE
        LET ellipsisValue == IF filled = {} THEN 0 ELSE values[name].v
            st == IF ellipsisValue > 0 THEN growDimension(state) ELSE state IN
        Let([r \in {fillEllipsisLoop(node, values, ellipsisPosition, ellipsisValue,
                                     0, st, <<>>)} |->
           IF IsPanic(r) THEN Panic
           ELSE Let([n \in {NewListNode(r.vals)} |->
                   IF IsPanic(n) THEN Panic
                   ELSE [typ |-> "res", item |-> n, state |-> r.state]])])])

RECURSIVE FillVariables(_, _)
\* ListNode.FillVariables
ListNodeFillVariables(node, values) ==
    Let([ellipsisValues \in {ellipsisValuesOf(values)} |->
    Let([otherValues \in {otherValuesOf(values)} |->
    Let([an \in {ellipsisAnalysis(node, ellipsisValues)} |->
       IF IsPanic(an) THEN Panic
       ELSE
        Let([fe \in {IF an.toFill > 0
                     THEN fillEllipsis(node, ellipsisValues, newFillState(an.remaining))
                     ELSE [typ |-> "res", item |-> node]} |->
           IF IsPanic(fe) THEN Panic
           ELSE
            LET nodeEllipsisFilled == fe.item
                posVar == variablesSwapKeyValue(nodeEllipsisFilled.variables) IN
            Let([nodeValues \in {
                  [i \in DOMAIN nodeEllipsisFilled.values |->
                     IF (i - 1) \in DOMAIN posVar
                     THEN IF posVar[i - 1] \in DOMAIN otherValues
                          THEN otherValues[posVar[i - 1]]
                          ELSE GoStr(posVar[i - 1])
                     ELSE GoItem(FillVariables(nodeEllipsisFilled.values[i],
                                               otherValues))]} |->
               NewListNode(nodeValues)])])])])])

\* ItemNode.FillVariables
FillVariables(item, values) ==
    IF item.typ = "list" THEN ListNodeFillVariables(item, values)
    ELSE ScalarFillVariables(item, values)

----------------------------------------------------------------------------
(* ItemNode.ToBytes                                                        *)

RECURSIVE Pow2(_)
Pow2(n) == IF n <= 0 THEN 1 ELSE 2 * Pow2(n - 1)

\* floor(log2(a)) for a >= 1
RECURSIVE Log2(_)
Log2(a) == IF a < 2 THEN 0 ELSE 1 + Log2(a \div 2)

\* the largest magnitude of the floats of the model: their mantissa fits the
\* upper 20 bits of both formats
FloatMagnitude == Pow2(20) - 1

\* math.Float32bits(float32(k)) as 4 big-endian bytes, for an integer k of
\* the float domain: sign, 8 bits of exponent, 23 bits of mantissa
Float32Bytes(k) ==
    IF k = 0 THEN <<0, 0, 0, 0>>
    ELSE LET a == IF k < 0 THEN 0 - k ELSE k
             e == Log2(a)
             E == e + 127
             m == (a - Pow2(e)) * Pow2(23 - e)
         IN <<(IF k < 0 THEN 128 ELSE 0) + E \div 2,
              (E % 2) * 128 + m \div 65536,
              (m \div 256) % 256,
              m % 256>>

\* math.Float64bits(k) as 8 big-endian bytes: sign, 11 bits of exponent, 52
\* bits of mantissa of which the lower 32 are zero in the float domain
Float64Bytes(k) ==
    IF k = 0 THEN <<0, 0, 0, 0, 0, 0, 0, 0>>
    ELSE LET a == IF k < 0 THEN 0 - k ELSE k
             e == Log2(a)
             E == e + 1023
             m == (a - Pow2(e)) * Pow2(20 - e)
         IN <<(IF k < 0 THEN 128 ELSE 0) + E \div 16,
              (E % 16) * 16 + m \div 65536,
              (m \div 256) % 256,
              m % 256, 0, 0, 0, 0>>

RECURSIVE ToBytes(_)
\* the bytes of the values of a list node that leaves out a child without
\* bytes
RECURSIVE ChildrenBytesSkipping(_, _)
ChildrenBytesSkipping(items, acc) ==
    IF items = <<>> THEN acc
    ELSE ChildrenBytesSkipping(Tail(items), acc \o ToBytes(Head(items)))

\* the bytes of the values of a list node, <<>> as soon as one child has none
RECURSIVE ChildrenBytes(_, _)
ChildrenBytes(items, acc) ==
    IF items = <<>> THEN acc
    ELSE Let([childResult \in {ToBytes(Head(items))} |->
            IF Len(childResult) = 0 THEN <<>>
            ELSE ChildrenBytes(Tail(items), acc \o childResult)])

ScalarBytes(node, typ, enc(_)) ==
    Let([result \in {getHeaderBytes(typ, Size(node))} |->
       IF DOMAIN node.variables # {} THEN <<>>
       ELSE IF result = <<>> THEN <<>>
       ELSE result \o Concat([i \in DOMAIN node.values |-> enc(node.values[i])])])

ToBytes(item) ==
    CASE item.typ = "list" ->
            Let([result \in {getHeaderBytes("list", Size(item))} |->
               IF DOMAIN item.variables # {} THEN <<>>
               ELSE IF result = <<>> THEN <<>>
               ELSE IF item.values = <<>> THEN result
               ELSE ChildrenBytes(item.values, result)])
      [] item.typ = "int" ->
            ScalarBytes(item, numType("i", item.byteSize),
                        LAMBDA v : BigEndian(v, item.byteSize))
      [] item.typ = "uint" ->
            ScalarBytes(item, numType("u", item.byteSize),
                        LAMBDA v : BigEndian(v, item.byteSize))
      [] item.typ = "float" ->
            ScalarBytes(item, numType("f", item.byteSize),
                        LAMBDA v : IF item.byteSize = 4 THEN Float32Bytes(v)
                                   ELSE Float64Bytes(v))
      [] item.typ = "binary" ->
            ScalarBytes(item, "binary", LAMBDA v : <<v % 256>>)
      [] item.typ = "boolean" ->
            ScalarBytes(item, "boolean", LAMBDA v : <<IF v THEN 1 ELSE 0>>)
      [] item.typ = "ascii" ->
            Let([result \in {getHeaderBytes("ascii", Size(item))} |->
               IF ~item.isValue THEN <<>>
               ELSE IF result = <<>> THEN <<>>
               ELSE result \o [i \in DOMAIN item.value |-> item.value[i] % 256]])
      [] OTHER -> <<>>

----------------------------------------------------------------------------
(* ItemNode.String(): the SML text of an item                              *)

\* strings.Join(values, " ")
RECURSIVE JoinSpace(_)
JoinSpace(ss) ==
    IF ss = <<>> THEN <<>>
    ELSE IF Len(ss) = 1 THEN ss[1]
    ELSE ss[1] \o <<32>> \o JoinSpace(Tail(ss))

\* strconv.FormatInt(v, 2) for v >= 0
RECURSIVE FormatBinary(_)
FormatBinary(v) ==
    IF v < 2 THEN <<48 + v>> ELSE FormatBinary(v \div 2) \o <<48 + (v % 2)>>

HexDigit(d) == IF d < 10 THEN 48 + d ELSE 55 + d

\* the digits of a without its trailing zeros
RECURSIVE StripZeros(_)
StripZeros(ds) ==
    IF Len(ds) > 1 /\ ds[Len(ds)] = 48 THEN StripZeros(SubSeq(ds, 1, Len(ds) - 1))
    ELSE ds

\* strconv.FormatFloat(v, 'g', -1, bits) of an integer-valued float: %e
\* with the shortest digits when the decimal exponent is 6 or more, and the
\* plain digits otherwise
FormatFloat(v) ==
    LET a == IF v < 0 THEN 0 - v ELSE v
        ds == ItoaNat(a)
        exp == Len(ds) - 1
        sd == StripZeros(ds)
        sign == IF v < 0 THEN <<45>> ELSE <<>>
    IN IF exp >= 6
       THEN sign \o <<sd[1]>>
            \o (IF Len(sd) > 1 THEN <<46>> \o Tail(sd) ELSE <<>>)
            \o <<101, 43>> \o (IF exp < 10 THEN <<48>> ELSE <<>>) \o ItoaNat(exp)
       ELSE sign \o ds

\* the values of a scalar node as strings, the names at variable positions
ValueStrings(node, fmt(_)) ==
    LET posVar == variablesSwapKeyValue(node.variables)
    IN [i \in DOMAIN node.values |->
          IF (i - 1) \in DOMAIN posVar THEN posVar[i - 1] ELSE fmt(node.values[i])]

\* fmt.Sprintf("<%s[%d] %v>", tag, size, strings.Join(values, " ")), and
\* "<tag[0]>" for a node without values
ScalarString(tag, node, fmt(_)) ==
    IF Size(node) = 0 THEN <<60>> \o tag \o <<91, 48, 93, 62>>
    ELSE <<60>> \o tag \o <<91>> \o Itoa(Size(node)) \o <<93, 32>>
         \o JoinSpace(ValueStrings(node, fmt)) \o <<62>>

\* the quoted and 0xNN pieces of ASCIINode.String from 1-based position i
RECURSIVE ASCIIPieces(_, _, _)
ASCIIPieces(value, i, printableState) ==
    IF i > Len(value) THEN (IF printableState THEN <<34>> ELSE <<>>)
    ELSE IF value[i] < 32 \/ value[i] = 127
    THEN (IF printableState THEN <<34>> ELSE <<>>)
         \o <<32, 48, 120, HexDigit(value[i] \div 16), HexDigit(value[i] % 16)>>
         \o ASCIIPieces(value, i + 1, FALSE)
    ELSE (IF printableState THEN <<>> ELSE <<32, 34>>)
         \o <<value[i]>> \o ASCIIPieces(value, i + 1, TRUE)

\* an ASCIINode.String that leaves out a lower limit of 0
ASCIINodeStringShort(node) ==
    IF ~node.isValue
    THEN LET min == node.variable.minLength
             max == node.variable.maxLength IN
         Let([lengthStr \in {
                 IF min = 0 /\ max = 0 - 1 THEN <<>>
                 ELSE IF min = max THEN <<91>> \o Itoa(max) \o <<93>>
                 ELSE IF max = 0 - 1 THEN <<91>> \o Itoa(min) \o <<46, 46, 93>>
                 ELSE IF min = 0 THEN <<91, 46, 46>> \o Itoa(max) \o <<93>>
                 ELSE <<91>> \o Itoa(min) \o <<46, 46>> \o Itoa(max) \o <<93>>} |->
            <<60, 65>> \o lengthStr \o <<32>> \o node.variable.name \o <<62>>])
    ELSE IF node.value = <<>> THEN <<60, 65, 91, 48, 93, 62>>
    ELSE <<60, 65>> \o ASCIIPieces(node.value, 1, FALSE) \o <<62>>

ASCIINodeString(node) ==
    IF ~node.isValue
    THEN LET min == node.variable.minLength
             max == node.variable.maxLength IN
         Let([lengthStr \in {
                 IF min = 0 /\ max = 0 - 1 THEN <<>>
                 ELSE IF min = max THEN <<91>> \o Itoa(max) \o <<93>>
                 ELSE IF max = 0 - 1 THEN <<91>> \o Itoa(min) \o <<46, 46, 93>>
                 ELSE <<91>> \o Itoa(min) \o <<46, 46>> \o Itoa(max) \o <<93>>} |->
            <<60, 65>> \o lengthStr \o <<32>> \o node.variable.name \o <<62>>])
    ELSE IF node.value = <<>> THEN <<60, 65, 91, 48, 93, 62>>
    ELSE <<60, 65>> \o ASCIIPieces(node.value, 1, FALSE) \o <<62>>

\* String() of every node but the list
ScalarNodeString(item) ==
    CASE item.typ = "int" ->
            ScalarString(<<73>> \o Itoa(item.byteSize), item, Itoa)
      [] item.typ = "uint" ->
            ScalarString(<<85>> \o Itoa(item.byteSize), item, Itoa)
      [] item.typ = "float" ->
            ScalarString(<<70>> \o Itoa(item.byteSize), item, FormatFloat)
      [] item.typ = "binary" ->
            ScalarString(<<66>>, item, LAMBDA v : ZeroB \o FormatBinary(v))
      [] item.typ = "boolean" ->
            ScalarString(<<66, 79, 79, 76, 69, 65, 78>>, item,
                         LAMBDA v : IF v THEN <<84>> ELSE <<70>>)
      [] item.typ = "ascii" -> ASCIINodeString(item)
      [] OTHER -> <<>>

RECURSIVE stringIndented(_, _)
\* ListNode.stringIndented
stringIndented(node, level) ==
    LET indentStr == Repeat(<<32, 32>>, level)
        posVar == variablesSwapKeyValue(node.variables)
        line(i) ==
            IF node.values[i].typ = "list"
            THEN stringIndented(node.values[i], level + 1) \o <<10>>
            ELSE IF (i - 1) \in DOMAIN posVar
            THEN indentStr \o <<32, 32>>
                 \o (IF isEllipsis(posVar[i - 1]) THEN Dots3 ELSE posVar[i - 1])
                 \o <<10>>
            ELSE indentStr \o <<32, 32>> \o ScalarNodeString(node.values[i]) \o <<10>>
        sizeDetermined ==
            \A i \in DOMAIN node.values :
                node.values[i].typ = "list" \/ (i - 1) \notin DOMAIN posVar IN
    Let([sizeStr \in {IF sizeDetermined THEN <<91>> \o Itoa(Size(node)) \o <<93>>
                      ELSE <<>>} |->
       IF Size(node) = 0 THEN indentStr \o <<60, 76, 91, 48, 93, 62>>
       ELSE indentStr \o <<60, 76>> \o sizeStr \o <<10>>
            \o Concat([i \in DOMAIN node.values |-> line(i)])
            \o indentStr \o <<62>>])

\* ItemNode.String()
String(item) ==
    IF item.typ = "list" THEN stringIndented(item, 0) ELSE ScalarNodeString(item)

----------------------------------------------------------------------------
(* DataMessage (ast.go)                                                    *)
(*                                                                         *)
(* A message is a record; its systemBytes field is the content of the      *)
(* slice here, and a reference to a slice where messages live on a heap.   *)

DirHE == <<72, 45, 62, 69>>             \* "H->E"
DirEH == <<72, 60, 45, 69>>             \* "H<-E"
DirBoth == <<72, 60, 45, 62, 69>>       \* "H<->E"

\* a checkRep that does not look at the wait bit of a reply message
DataMessageCheckRepAnyWait(node) ==
    /\ \A i \in DOMAIN node.name : node.name[i] \notin SpaceChars
    /\ 0 <= node.stream /\ node.stream < 128
    /\ 0 <= node.function /\ node.function < 256
    /\ 0 <= node.waitBit /\ node.waitBit <= 2
    /\ 0 - 1 <= node.sessionID /\ node.sessionID < 65536
    /\ Len(node.systemBytes) = 4
    /\ node.direction \in {DirHE, DirEH, DirBoth}

DataMessageCheckRep(node) ==
    /\ \A i \in DOMAIN node.name : node.name[i] \notin SpaceChars
    /\ 0 <= node.stream /\ node.stream < 128
    /\ 0 <= node.function /\ node.function < 256
    /\ ~(node.waitBit = 1 /\ node.function % 2 = 0)
    /\ 0 <= node.waitBit /\ node.waitBit <= 2
    /\ 0 - 1 <= node.sessionID /\ node.sessionID < 65536
    /\ Len(node.systemBytes) = 4
    /\ node.direction \in {DirHE, DirEH, DirBoth}

\* make([]byte, 4) filled from the first 4 bytes of systemBytes
systemBytesCopy(systemBytes) ==
    [i \in 1..4 |-> IF i <= Len(systemBytes) THEN systemBytes[i] ELSE 0]

NewDataMessage(name, stream, function, waitBit, direction, dataItem) ==
    LET message == [typ |-> "data message", name |-> name, stream |-> stream,
                    function |-> function, waitBit |-> waitBit,
                    direction |-> direction, dataItem |-> dataItem,
                    sessionID |-> 0 - 1, systemBytes |-> <<0, 0, 0, 0>>]
    IN IF IsPanic(dataItem) THEN Panic
       ELSE IF DataMessageCheckRep(message) THEN message ELSE Panic

NewHSMSDataMessage(name, stream, function, waitBit, direction, dataItem, sessionID, systemBytes) ==
    IF IsPanic(dataItem) THEN Panic
    ELSE IF waitBit # 0 /\ waitBit # 1 THEN Panic
    ELSE IF sessionID = 0 - 1 THEN Panic
    ELSE IF Len(Variables(dataItem)) # 0 THEN Panic
    ELSE LET message == [typ |-> "data message", name |-> name,
                         stream |-> stream, function |-> function,
                         waitBit |-> waitBit, direction |-> direction,
                         dataItem |-> dataItem, sessionID |-> sessionID,
                         systemBytes |-> systemBytesCopy(systemBytes)]
         IN IF DataMessageCheckRep(message) THEN message ELSE Panic

\* DataMessage.WaitBit()
WaitBit(node) ==
    CASE node.waitBit = 0 -> "false"
      [] node.waitBit = 1 -> "true"
      [] node.waitBit = 2 -> "optional"
      [] OTHER -> "panic"

\* DataMessage.SetWaitBit: the receiver itself unless its wait bit is optional
SetWaitBit(node, waitBit) ==
    IF node.waitBit # 2 THEN node
    ELSE LET message == [node EXCEPT !.waitBit = IF waitBit THEN 1 ELSE 0]
         IN IF DataMessageCheckRep(message) THEN message ELSE Panic

\* DataMessage.SetSessionIDAndSystemBytes
SetSessionIDAndSystemBytes(node, sessionID, systemBytes) ==
    LET message == [node EXCEPT !.sessionID = sessionID,
                                !.systemBytes = systemBytesCopy(systemBytes)]
    IN IF DataMessageCheckRep(message) THEN message ELSE Panic

\* DataMessage.Variables()
MessageVariables(node) == Variables(node.dataItem)

\* DataMessage.FillVariables
MessageFillVariables(node, values) ==
    Let([item \in {FillVariables(node.dataItem, values)} |->
    LET message == [node EXCEPT !.dataItem = item]
    IN IF IsPanic(item) THEN Panic
       ELSE IF DataMessageCheckRep(message) THEN message ELSE Panic])

\* a ToBytes that does not look at the session id
MessageToBytesAnySession(node) ==
    IF WaitBit(node) = "optional" \/ Len(MessageVariables(node)) # 0
    THEN <<>>
    ELSE Let([itemBytes \in {ToBytes(node.dataItem)} |->
         LET headerByte2 == node.stream + (IF WaitBit(node) = "true" THEN 128 ELSE 0)
         IN BigEndian(Len(itemBytes) + 10, 4)
            \o <<ByteOf(node.sessionID, 1), ByteOf(node.sessionID, 0)>>
            \o <<headerByte2 % 256, node.function % 256, 0, 0>>
            \o SubSeq(node.systemBytes, 1, 4)
            \o itemBytes])

\* DataMessage.ToBytes
MessageToBytes(node) ==
    IF WaitBit(node) = "optional" \/ Len(MessageVariables(node)) # 0
       \/ node.sessionID = 0 - 1
    THEN <<>>
    ELSE Let([itemBytes \in {ToBytes(node.dataItem)} |->
         LET headerByte2 == node.stream + (IF WaitBit(node) = "true" THEN 128 ELSE 0)
         IN BigEndian(Len(itemBytes) + 10, 4)
            \o <<ByteOf(node.sessionID, 1), ByteOf(node.sessionID, 0)>>
            \o <<headerByte2 % 256, node.function % 256, 0, 0>>
            \o SubSeq(node.systemBytes, 1, 4)
            \o itemBytes])

\* DataMessage.Header()
Header(node) ==
    <<83>> \o Itoa(node.stream) \o <<70>> \o Itoa(node.function)
    \o (CASE node.waitBit = 1 -> <<32, 87>>
          [] node.waitBit = 2 -> <<32, 91, 87, 93>>
          [] OTHER -> <<>>)
    \o <<32>> \o node.direction
    \o (IF Len(node.name) > 0 THEN <<32>> \o node.name ELSE <<>>)

\* DataMessage.String()
MessageString(node) ==
    IF node.dataItem.typ = "empty" THEN Header(node) \o <<10, 46>>
    ELSE Header(node) \o <<10>> \o String(node.dataItem) \o <<10, 46>>

----------------------------------------------------------------------------
(* ControlMessage: the HSMS control messages                               *)

Nil == [typ |-> "nil"]

ZeroHeader == <<0, 0, 0, 0, 0, 0, 0, 0, 0, 0>>

ControlMessage(header) == [typ |-> "control message", header |-> header]

\* a copy of the header that stops one byte early
NewHSMSControlMessageShort(header) ==
    ControlMessage([i \in 1..10 |-> IF i <= 9 THEN header[i] ELSE 0])

\* NewHSMSControlMessage: a copy of the header in a slice of 10 bytes; an
\* 11th byte is written out of range before the loop is left
NewHSMSControlMessage(header) ==
    IF Len(header) > 10 THEN Panic
    ELSE ControlMessage([i \in 1..10 |-> IF i <= Len(header) THEN header[i] ELSE 0])

\* the header every request constructor builds: session id, byte 2, byte 3,
\* SType and the four system bytes; systemBytes[3] is out of range for a
\* shorter slice
RequestHeader(sessionID, b2, b3, sType, systemBytes) ==
    IF Len(systemBytes) < 4 THEN Panic
    ELSE ControlMessage(<<ByteOf(sessionID, 1), ByteOf(sessionID, 0), b2, b3, 0,
                          sType, systemBytes[1], systemBytes[2],
                          systemBytes[3], systemBytes[4]>>)

\* ControlMessage.Type() as the older hsms.go has it: the SType alone selects
\* the name and every other SType is "unknown"
TypeBySTypeAlone(msg) ==
    IF msg.typ = "data message" THEN "data message"
    ELSE CASE msg.header[6] = 1 -> "select.req"
           [] msg.header[6] = 2 -> "select.rsp"
           [] msg.header[6] = 3 -> "deselect.req"
           [] msg.header[6] = 4 -> "deselect.rsp"
           [] msg.header[6] = 5 -> "linktest.req"
           [] msg.header[6] = 6 -> "linktest.rsp"
           [] msg.header[6] = 7 -> "reject.req"
           [] msg.header[6] = 9 -> "separate.req"
           [] OTHER -> "unknown"

\* ControlMessage.Type()
Type(msg) ==
    IF msg.typ = "data message" THEN "data message"
    ELSE IF msg.header[5] # 0 THEN "undefined"
    ELSE CASE msg.header[6] = 1 -> "select.req"
           [] msg.header[6] = 2 -> "select.rsp"
           [] msg.header[6] = 3 -> "deselect.req"
           [] msg.header[6] = 4 -> "deselect.rsp"
           [] msg.header[6] = 5 -> "linktest.req"
           [] msg.header[6] = 6 -> "linktest.rsp"
           [] msg.header[6] = 7 -> "reject.req"
           [] msg.header[6] = 9 -> "separate.req"
           [] OTHER -> "undefined"

\* the header every response constructor builds from its request
ResponseHeader(req, expected, b0, b1, b3, sType) ==
    IF Type(req) # expected THEN Panic
    ELSE ControlMessage(<<b0, b1, 0, b3, 0, sType, req.header[7],
                          req.header[8], req.header[9], req.header[10]>>)

NewHSMSMessageSelectReq(sessionID, systemBytes) ==
    RequestHeader(sessionID, 0, 0, 1, systemBytes)

NewHSMSMessageSelectRsp(selectReq, selectStatus) ==
    IF IsPanic(selectReq) THEN Panic
    ELSE ResponseHeader(selectReq, "select.req", selectReq.header[1],
                        selectReq.header[2], selectStatus, 2)

NewHSMSMessageDeselectReq(sessionID, systemBytes) ==
    RequestHeader(sessionID, 0, 0, 3, systemBytes)

NewHSMSMessageDeselectRsp(deselectReq, deselectStatus) ==
    IF IsPanic(deselectReq) THEN Panic
    ELSE ResponseHeader(deselectReq, "deselect.req", deselectReq.header[1],
                        deselectReq.header[2], deselectStatus, 4)

NewHSMSMessageLinktestReq(systemBytes) ==
    RequestHeader(65535, 0, 0, 5, systemBytes)

NewHSMSMessageLinktestRsp(linktestReq) ==
    IF IsPanic(linktestReq) THEN Panic
    ELSE ResponseHeader(linktestReq, "linktest.req", 255, 255, 0, 6)

NewHSMSMessageRejectReq(sessionID, pType, sType, systemBytes, reasonCode) ==
    RequestHeader(sessionID, IF reasonCode = 2 THEN pType ELSE sType,
                  reasonCode, 7, systemBytes)

NewHSMSMessageSeparateReq(sessionID, systemBytes) ==
    RequestHeader(sessionID, 0, 0, 9, systemBytes)

\* ControlMessage.ToBytes()
ControlToBytes(msg) == <<0, 0, 0, 10>> \o msg.header

\* HSMSMessage.ToBytes()
HSMSToBytes(msg) ==
    IF msg.typ = "data message" THEN MessageToBytes(msg) ELSE ControlToBytes(msg)

----------------------------------------------------------------------------
(* The HSMS decoder (package hsms)                                         *)

\* binary.BigEndian.Uint16 / Uint32 / Uint64
RECURSIVE BytesValue(_, _)
BytesValue(bs, acc) ==
    IF bs = <<>> THEN acc ELSE BytesValue(Tail(bs), acc * 256 + Head(bs))

\* int8(b), int16(bits), int32(bits), int64(bits): the two's complement
\* reading of big-endian bytes
SignedValue(bs) ==
    IF bs[1] >= 128
    THEN 0 - (BytesValue([i \in DOMAIN bs |-> 255 - bs[i]], 0) + 1)
    ELSE BytesValue(bs, 0)

\* math.Float32frombits, defined on the bit patterns of the float domain,
\* of the infinities and of NaN (exponent bits all ones)
Float32frombits(bs) ==
    LET E == (bs[1] % 128) * 2 + bs[2] \div 128
        m == (bs[2] % 128) * 65536 + bs[3] * 256 + bs[4]
        e == E - 127
        a == Pow2(e) + m \div Pow2(23 - e)
    IN IF bs = <<0, 0, 0, 0>> THEN 0
       ELSE IF E = 255
       THEN IF m # 0 THEN FloatNaN
            ELSE IF bs[1] >= 128 THEN 0 - FloatInf ELSE FloatInf
       ELSE IF bs[1] >= 128 THEN 0 - a ELSE a

\* math.Float64frombits, defined on the bit patterns of the float domain,
\* of the infinities and of NaN (exponent bits all ones)
Float64frombits(bs) ==
    LET E == (bs[1] % 128) * 16 + bs[2] \div 16
        m == (bs[2] % 16) * 65536 + bs[3] * 256 + bs[4]
        e == E - 1023
        a == Pow2(e) + m \div Pow2(20 - e)
    IN IF bs = <<0, 0, 0, 0, 0, 0, 0, 0>> THEN 0
       ELSE IF E = 2047
       THEN IF m # 0 \/ SubSeq(bs, 5, 8) # <<0, 0, 0, 0>> THEN FloatNaN
            ELSE IF bs[1] >= 128 THEN 0 - FloatInf ELSE FloatInf
       ELSE IF bs[1] >= 128 THEN 0 - a ELSE a

\* whether the bytes are the bit pattern of a float of the float domain
InFloatDomain(bs) ==
    \/ Len(bs) = 4 /\ Float32Bytes(Float32frombits(bs)) = bs
    \/ Len(bs) = 8 /\ Float64Bytes(Float64frombits(bs)) = bs

\* b << shift on a byte: the bits shifted out of the 8 are lost
ShiftLeftByte(b, shift) == (b * Pow2(shift)) % 256

\* the item length read from the length bytes: length += int(b << shift)
RECURSIVE lengthOf(_, _)
lengthOf(lengthBytes, i) ==
    IF i > Len(lengthBytes) THEN 0
    ELSE ShiftLeftByte(lengthBytes[i], (Len(lengthBytes) - i) * 8)
         + lengthOf(lengthBytes, i + 1)

\* A []byte is held as the bytes of its backing array from the start of the
\* slice up to its capacity, and its length.  An index expression panics
\* beyond the length, a slice expression beyond the capacity.
Slice(array, len) == [array |-> array, len |-> len]

\* the slice of a byte sequence whose capacity is its length
SliceOf(bs) == Slice(bs, Len(bs))

Cap(input) == Len(input.array)

\* the values of a numeric item: valueCounts chunks of byteSize bytes from
\* 0-based position pos
Chunks(input, pos, byteSize, valueCounts) ==
    [i \in 1..valueCounts |->
        SubSeq(input.array, pos + byteSize * (i - 1) + 1, pos + byteSize * i)]

parseResult(item, ok, pos) == [typ |-> "res", item |-> item, ok |-> ok, pos |-> pos]

\* parser.parseFloat
hsmsParseFloat(input, pos, byteSize, length) ==
    IF length % byteSize # 0 THEN parseResult(NewEmptyItemNode, FALSE, pos)
    ELSE IF pos + length > Cap(input) THEN Panic
    ELSE LET chunks == Chunks(input, pos, byteSize, length \div byteSize) IN
         Let([values \in {[i \in DOMAIN chunks |->
                             IF byteSize = 4
                             THEN GoV("float32", Float32frombits(chunks[i]))
                             ELSE GoV("float64", Float64frombits(chunks[i]))]} |->
         Let([item \in {NewFloatNode(byteSize, values)} |->
            IF IsPanic(item) THEN Panic ELSE parseResult(item, TRUE, pos + length)])])

intKindOf(byteSize) ==
    CASE byteSize = 1 -> "int8" [] byteSize = 2 -> "int16"
      [] byteSize = 4 -> "int32" [] OTHER -> "int64"

uintKindOf(byteSize) ==
    CASE byteSize = 1 -> "uint8" [] byteSize = 2 -> "uint16"
      [] byteSize = 4 -> "uint32" [] OTHER -> "uint64"

\* the end of what a numeric item may read: the values of one byte are read
\* by index expressions, the wider ones by slice expressions
readLimit(input, byteSize) == IF byteSize = 1 THEN input.len ELSE Cap(input)

\* parser.parseInt
hsmsParseInt(input, pos, byteSize, length) ==
    IF length % byteSize # 0 THEN parseResult(NewEmptyItemNode, FALSE, pos)
    ELSE IF pos + length > readLimit(input, byteSize) THEN Panic
    ELSE LET chunks == Chunks(input, pos, byteSize, length \div byteSize) IN
         Let([values \in {[i \in DOMAIN chunks |->
                             GoV(intKindOf(byteSize), SignedValue(chunks[i]))]} |->
         Let([item \in {NewIntNode(byteSize, values)} |->
            IF IsPanic(item) THEN Panic ELSE parseResult(item, TRUE, pos + length)])])

\* parser.parseUint
hsmsParseUint(input, pos, byteSize, length) ==
    IF length % byteSize # 0 THEN parseResult(NewEmptyItemNode, FALSE, pos)
    ELSE IF pos + length > readLimit(input, byteSize) THEN Panic
    ELSE LET chunks == Chunks(input, pos, byteSize, length \div byteSize)
             values == [i \in DOMAIN chunks |->
                          GoV(uintKindOf(byteSize), BytesValue(chunks[i], 0))] IN
         Let([item \in {NewUintNode(byteSize, values)} |->
            IF IsPanic(item) THEN Panic ELSE parseResult(item, TRUE, pos + length)])

RECURSIVE hsmsParseMessageText(_, _, _)
\* the loop of the list case: length children from position pos
RECURSIVE hsmsParseChildren(_, _, _, _, _)
hsmsParseChildren(input, pos, msgLength, length, acc) ==
    IF length = 0 THEN [typ |-> "res", values |-> acc, ok |-> TRUE, pos |-> pos]
    ELSE Let([r \in {hsmsParseMessageText(input, pos, msgLength)} |->
            IF IsPanic(r) THEN Panic
            ELSE IF ~r.ok
            THEN [typ |-> "res", values |-> acc, ok |-> FALSE, pos |-> r.pos]
            ELSE hsmsParseChildren(input, r.pos, msgLength, length - 1,
                                   Append(acc, GoItem(r.item)))])

\* parser.parseMessageText from 0-based position pos: the item, ok and the
\* position after it, or Panic
hsmsParseMessageText(input, pos, msgLength) ==
    IF msgLength = 10 THEN parseResult(NewEmptyItemNode, TRUE, pos)
    ELSE IF pos >= input.len THEN Panic
    ELSE
     LET formatCodeByte == input.array[pos + 1] \div 4
         lengthBytesCount == input.array[pos + 1] % 4
     IN IF lengthBytesCount = 0 THEN parseResult(NewEmptyItemNode, FALSE, pos)
        ELSE IF pos + 1 + lengthBytesCount > Cap(input) THEN Panic
        ELSE
         LET length == lengthOf(SubSeq(input.array, pos + 2, pos + 1 + lengthBytesCount), 1)
             p == pos + 1 + lengthBytesCount
             payload == SubSeq(input.array, p + 1, p + length)
             overrun == p + length > Cap(input)
         IN CASE formatCodeByte = 0 ->
                   Let([r \in {hsmsParseChildren(input, p, msgLength, length, <<>>)} |->
                      IF IsPanic(r) THEN Panic
                      ELSE IF ~r.ok THEN parseResult(NewEmptyItemNode, FALSE, r.pos)
                      ELSE Let([item \in {NewListNode(r.values)} |->
                              IF IsPanic(item) THEN Panic
                              ELSE parseResult(item, TRUE, r.pos)])])
              [] formatCodeByte = 16 ->
                   IF overrun THEN Panic
                   ELSE Let([item \in {NewASCIINode(payload)} |->
                           IF IsPanic(item) THEN Panic
                           ELSE parseResult(item, TRUE, p + length)])
              [] formatCodeByte = 8 ->
                   IF overrun THEN Panic
                   ELSE Let([item \in {NewBinaryNode(
                                   [i \in DOMAIN payload |-> GoV("uint8", payload[i])])} |->
                           IF IsPanic(item) THEN Panic
                           ELSE parseResult(item, TRUE, p + length)])
              [] formatCodeByte = 9 ->
                   IF overrun THEN Panic
                   ELSE Let([item \in {NewBooleanNode(
                                   [i \in DOMAIN payload |-> GoBool(payload[i] # 0)])} |->
                           IF IsPanic(item) THEN Panic
                           ELSE parseResult(item, TRUE, p + length)])
              [] formatCodeByte = 36 -> hsmsParseFloat(input, p, 4, length)
              [] formatCodeByte = 32 -> hsmsParseFloat(input, p, 8, length)
              [] formatCodeByte = 25 -> hsmsParseInt(input, p, 1, length)
              [] formatCodeByte = 26 -> hsmsParseInt(input, p, 2, length)
              [] formatCodeByte = 28 -> hsmsParseInt(input, p, 4, length)
              [] formatCodeByte = 24 -> hsmsParseInt(input, p, 8, length)
              [] formatCodeByte = 41 -> hsmsParseUint(input, p, 1, length)
              [] formatCodeByte = 42 -> hsmsParseUint(input, p, 2, length)
              [] formatCodeByte = 44 -> hsmsParseUint(input, p, 4, length)
              [] formatCodeByte = 40 -> hsmsParseUint(input, p, 8, length)
              [] OTHER -> parseResult(NewEmptyItemNode, FALSE, p)

\* a length check that looks only at the 14 bytes it needs
hsmsParseMessageLengthLoose(input) == input.len >= 14

\* parser.parseMessageLength
hsmsParseMessageLength(input) ==
    /\ input.len >= 14
    /\ input.len - 4 = BytesValue(SubSeq(input.array, 1, 4), 0)

\* a parseMessage that takes every SType for that of a control message
hsmsParseMessageAnySType(input) ==
    LET headerBytes == SubSeq(input.array, 5, 14)
    IN IF headerBytes[5] # 0 THEN [typ |-> "res", msg |-> Nil, ok |-> FALSE]
       ELSE [typ |-> "res", msg |-> NewHSMSControlMessage(headerBytes), ok |-> TRUE]

\* parser.parseMessage: [msg, ok] or Panic
hsmsParseMessage(input) ==
    LET headerBytes == SubSeq(input.array, 5, 14)
        msgLength == BytesValue(SubSeq(input.array, 1, 4), 0)
    IN IF headerBytes[5] # 0 THEN [typ |-> "res", msg |-> Nil, ok |-> FALSE]
       ELSE IF headerBytes[6] = 0
       THEN Let([r \in {hsmsParseMessageText(input, 14, msgLength)} |->
               IF IsPanic(r) THEN Panic
               ELSE IF ~r.ok THEN [typ |-> "res", msg |-> Nil, ok |-> FALSE]
               ELSE Let([msg \in {NewHSMSDataMessage(<<>>, headerBytes[3] % 128,
                                       headerBytes[4], headerBytes[3] \div 128,
                                       DirBoth, r.item,
                                       BytesValue(SubSeq(headerBytes, 1, 2), 0),
                                       SubSeq(headerBytes, 7, 10))} |->
                       IF IsPanic(msg) THEN Panic
                       ELSE [typ |-> "res", msg |-> msg, ok |-> TRUE]])])
       ELSE IF headerBytes[6] \in {1, 2, 3, 4, 5, 6, 7, 9}
       THEN [typ |-> "res", msg |-> NewHSMSControlMessage(headerBytes), ok |-> TRUE]
       ELSE [typ |-> "res", msg |-> Nil, ok |-> FALSE]

\* hsms.Parse: a panic is recovered and turned into ok = false
hsmsParse(input) ==
    IF ~hsmsParseMessageLength(input) THEN [msg |-> Nil, ok |-> FALSE]
    ELSE Let([r \in {hsmsParseMessage(input)} |->
            IF IsPanic(r) THEN [msg |-> Nil, ok |-> FALSE]
            ELSE [msg |-> r.msg, ok |-> r.ok]])

-----------------------------------------------------------------------------
(* The SML lexer (pkg/parser/sml/lexer.go).  The input is ASCII, so a rune *)
(* is one byte wide and positions count characters.  A token is a record   *)
(* [typ, val, line, col]; the token channel is the sequence l.tokens and   *)
(* l.closed tells whether the channel was closed.  A state function        *)
(* returns the lexer after its run and the name of the next state.         *)

Token(typ, val, line, col) == [typ |-> typ, val |-> val, line |-> line, col |-> col]

Str_EOF == <<69, 79, 70>>                           \* "EOF"

lex(input) ==
    [input |-> input, lastState |-> "nil", state |-> "lexMessageHeader",
     pos |-> 0, start |-> 0, tokens |-> <<>>, closed |-> FALSE]

\* the rune at 0-based position k of the input, -1 (eof) past the end
RuneAt(l, k) == IF k >= 0 /\ k < Len(l.input) THEN l.input[k + 1] ELSE -1

\* l.input[l.pos:]
Rest(l) == SubSeq(l.input, l.pos + 1, Len(l.input))

\* lexer.acceptRun from 0-based position k: the position after the run
AcceptRun(l, k, valid) == k + RunLen(l.input, k + 1, valid)

\* lexer.accept at 0-based position k
Accept(l, k, valid) == IF RuneAt(l, k) \in valid THEN k + 1 ELSE k

lineColumn(l) ==
    LET before == SubSeq(l.input, 1, l.start)
        nl == {i \in DOMAIN before : before[i] = 10}
        lineStart == IF nl = {} THEN 0 ELSE CHOOSE i \in nl : \A j \in nl : j <= i
    IN [line |-> 1 + Cardinality(nl), col |-> 1 + (l.start - lineStart)]

emitValue(l, typ, val) ==
    Let([lc \in {lineColumn(l)} |->
       [l EXCEPT !.tokens = Append(@, Token(typ, val, lc.line, lc.col)),
                 !.start = l.pos]])

emit(l, typ) == emitValue(l, typ, SubSeq(l.input, l.start + 1, l.pos))

emitUppercase(l, typ) ==
    emitValue(l, typ, ToUpper(SubSeq(l.input, l.start + 1, l.pos)))

emitSpaceRemoved(l, typ) ==
    emitValue(l, typ, SelectSeq(SubSeq(l.input, l.start + 1, l.pos),
                                LAMBDA r : r \notin SpaceChars))

emitEOF(l) == emitValue(l, "EOF", Str_EOF)

\* a terminate that leaves the channel open
terminateOpen(l) == [lx |-> l, fn |-> "nil"]

\* close(l.tokens); return nil
terminate(l) == [lx |-> [l EXCEPT !.closed = TRUE], fn |-> "nil"]

\* an errorf that goes on with the text after the error token
lexErrorfGoOn(l, text) ==
    Let([lc \in {lineColumn(l)} |->
       [lx |-> [l EXCEPT !.tokens = Append(@, Token("Error", text, lc.line, lc.col)),
                         !.start = l.pos],
        fn |-> "lexMessageText"]])

\* lexer.errorf: the text of the error token is the format of the message
lexErrorf(l, text) ==
    Let([lc \in {lineColumn(l)} |->
       terminate([l EXCEPT !.tokens = Append(@, Token("Error", text, lc.line, lc.col))])])

Goto(l, fn) == [lx |-> l, fn |-> fn]

\* regexp ^[Ss]\d+[Ff]\d+ : the length of the match at the head of s, or 0
MatchStreamFunction(s) ==
    IF Len(s) >= 1 /\ s[1] \in {83, 115}
    THEN LET d1 == RunLen(s, 2, Digits)
             d2 == RunLen(s, 3 + d1, Digits)
         IN IF d1 >= 1 /\ Len(s) >= 2 + d1 /\ s[2 + d1] \in {70, 102} /\ d2 >= 1
            THEN 2 + d1 + d2
            ELSE 0
    ELSE 0

\* regexp ^([Ww]|\[[Ww]\])
MatchWaitBit(s) ==
    IF Len(s) >= 1 /\ s[1] \in {87, 119} THEN 1
    ELSE IF Len(s) >= 3 /\ s[1] = 91 /\ s[2] \in {87, 119} /\ s[3] = 93 THEN 3
    ELSE 0

\* regexp ^[Hh](->|<->|<-)[Ee]
MatchDirection(s) ==
    IF Len(s) >= 1 /\ s[1] \in {72, 104}
    THEN IF Len(s) >= 4 /\ SubSeq(s, 2, 3) = <<45, 62>> /\ s[4] \in {69, 101} THEN 4
         ELSE IF Len(s) >= 5 /\ SubSeq(s, 2, 4) = <<60, 45, 62>> /\ s[5] \in {69, 101} THEN 5
         ELSE IF Len(s) >= 4 /\ SubSeq(s, 2, 3) = <<60, 45>> /\ s[4] \in {69, 101} THEN 4
         ELSE 0
    ELSE 0

\* regexp ^\.\.\.(\[\d+\])?
MatchEllipsis(s) == IF HasPrefix(s, Dots3) THEN 3 + OneTagLen(s, 4) ELSE 0

\* regexp ^[A-Za-z_]\w*
MatchWord(s) ==
    IF Len(s) >= 1 /\ s[1] \in Letters \cup {95} THEN 1 + RunLen(s, 2, WordChars) ELSE 0

isAlphaNumeric(r) == r \in WordChars
isDigit(r) == r \in Digits

Slashes == <<47, 47>>                               \* "//"

\* the message name loop of lexMessageHeader: the position where it stops,
\* reading from 0-based position k
RECURSIVE NameEnd(_, _)
NameEnd(l, k) ==
    LET r == RuneAt(l, k)
    IN IF r = -1 \/ r \in SpaceChars
          \/ HasPrefix(SubSeq(l.input, k + 1, Len(l.input)), Slashes)
       THEN k
       ELSE NameEnd(l, k + 1)

RECURSIVE lexMessageHeader(_)
lexMessageHeader(l) ==
    LET rest == Rest(l)
        r == RuneAt(l, l.pos)
        adv(n) == [l EXCEPT !.pos = l.pos + n]
    IN IF HasPrefix(rest, Slashes) THEN Goto(l, "lexComment")
       ELSE IF MatchStreamFunction(rest) > 0
       THEN Goto(emitUppercase(adv(MatchStreamFunction(rest)), "StreamFunction"),
                 "lexMessageHeader")
       ELSE IF MatchWaitBit(rest) > 0
       THEN Goto(emitUppercase(adv(MatchWaitBit(rest)), "WaitBit"), "lexMessageHeader")
       ELSE IF MatchDirection(rest) > 0
       THEN Goto(emitUppercase(adv(MatchDirection(rest)), "Direction"), "lexMessageHeader")
       ELSE IF r = -1 THEN Goto(l, "lexEOF")
       ELSE IF r \in LexSpace
       THEN lexMessageHeader([l EXCEPT !.pos = l.pos + 1, !.start = l.pos + 1])
       ELSE IF r = 46 THEN Goto(emit(adv(1), "MessageEnd"), "lexMessageHeader")
       ELSE IF r = 60 THEN Goto(emit(adv(1), "LeftAngleBracket"), "lexMessageText")
       ELSE Goto(emit([l EXCEPT !.pos = NameEnd(l, l.pos + 1)], "MessageName"),
                 "lexMessageHeader")

Str_L == <<76>>
Str_A == <<65>>
Str_B == <<66>>
Str_BOOLEAN == <<66, 79, 79, 76, 69, 65, 78>>
Str_T == <<84>>
Str_F == <<70>>
\* "F4", "F8", "I1", ... , "U8"
NumTypeName(letter, byteSize) == <<letter, 48 + byteSize>>
DataItemTypeNames ==
    {Str_L, Str_A, Str_B, Str_BOOLEAN, NumTypeName(70, 4), NumTypeName(70, 8)}
    \cup {NumTypeName(c, n) : c \in {73, 85}, n \in {1, 2, 4, 8}}

RECURSIVE lexMessageText(_)
lexMessageText(l) ==
    LET rest == Rest(l)
        r == RuneAt(l, l.pos)
        adv(n) == [l EXCEPT !.pos = l.pos + n] IN
    Let([w \in {MatchWord(rest)} |->
    LET word == ToUpper(SubSeq(rest, 1, w))
    IN IF HasPrefix(rest, Slashes) THEN Goto(l, "lexComment")
       ELSE IF MatchEllipsis(rest) > 0
       THEN Goto(emit(adv(MatchEllipsis(rest)), "Ellipsis"), "lexMessageText")
       ELSE IF w > 0
       THEN IF word \in DataItemTypeNames
            THEN Goto(emitUppercase(adv(w), "DataItemType"), "lexMessageText")
            ELSE IF word \in {Str_T, Str_F}
            THEN Goto(emitUppercase(adv(w), "Bool"), "lexMessageText")
            ELSE Goto(emit(adv(w + TagsLen(rest, w + 1)), "Variable"), "lexMessageText")
       ELSE IF r \in {43, 45} \/ isDigit(r) \/ (r = 46 /\ isDigit(RuneAt(l, l.pos + 1)))
       THEN Goto(l, "lexNumber")
       ELSE IF r = -1 THEN Goto(l, "lexEOF")
       ELSE IF r = 60 THEN Goto(emit(adv(1), "LeftAngleBracket"), "lexMessageText")
       ELSE IF r = 62 THEN Goto(emit(adv(1), "RightAngleBracket"), "lexMessageText")
       ELSE IF r = 46 THEN Goto(emit(adv(1), "MessageEnd"), "lexMessageHeader")
       ELSE IF r = 91 THEN Goto(l, "lexDataItemSize")
       ELSE IF r = 34 THEN Goto(l, "lexQuotedString")
       ELSE IF r \in LexSpace
       THEN lexMessageText([l EXCEPT !.pos = l.pos + 1, !.start = l.pos + 1])
       ELSE lexErrorf(adv(1), "unexpected character in data item")])

lexEOF(l) == terminate(emitEOF(l))

\* the loop of lexComment that steps back over the white space that ends
\* the comment line
RECURSIVE TrimBack(_, _)
TrimBack(l, i) ==
    IF RuneAt(l, l.pos + i - 1) \in SpaceChars THEN TrimBack(l, i - 1) ELSE i

\* a lexComment that always goes on with the header
lexCommentToHeader(l) ==
    Let([i \in {IndexOf(Rest(l), <<10>>)} |->
       IF i < 0
       THEN Goto(emit([l EXCEPT !.pos = Len(l.input)], "Comment"), "lexEOF")
       ELSE Goto(emit([l EXCEPT !.pos = l.pos + TrimBack(l, i)], "Comment"),
                 "lexMessageHeader")])

lexComment(l) ==
    Let([i \in {IndexOf(Rest(l), <<10>>)} |->
       IF i < 0
       THEN Goto(emit([l EXCEPT !.pos = Len(l.input)], "Comment"), "lexEOF")
       ELSE Goto(emit([l EXCEPT !.pos = l.pos + TrimBack(l, i)], "Comment"),
                 l.lastState)])

lexDataItemSize(l) ==
    LET p1 == Accept(l, l.pos, {91})
        p2 == AcceptRun(l, p1, LexSpace)
        found1 == RuneAt(l, p2) \in Digits IN
    Let([p3 \in {IF found1 THEN AcceptRun(l, AcceptRun(l, p2, Digits), LexSpace) ELSE p2} |->
    LET dots == HasPrefix(SubSeq(l.input, p3 + 1, Len(l.input)), <<46, 46>>)
        p4 == IF dots THEN AcceptRun(l, p3 + 2, LexSpace) ELSE p3
        found2 == dots /\ RuneAt(l, p4) \in Digits IN
    Let([p5 \in {IF found2 THEN AcceptRun(l, AcceptRun(l, p4, Digits), LexSpace) ELSE p4} |->
    LET p6 == Accept(l, p5, {93})
    IN IF ~(p6 > p5 /\ (found1 \/ found2))
       THEN lexErrorf([l EXCEPT !.pos = p6], "invalid data item size")
       ELSE Goto(emitSpaceRemoved([l EXCEPT !.pos = p6], "DataItemSize"),
                 "lexMessageText")])])

lexQuotedString(l) ==
    LET p1 == Accept(l, l.pos, {34})
        rest == SubSeq(l.input, p1 + 1, Len(l.input))
        i == IndexOf(rest, <<34>>)
        j == IndexAny(rest, {13, 10})
    IN IF i < 0 \/ (j > 0 /\ j < i)
       THEN lexErrorf([l EXCEPT !.pos = p1], "unclosed quoted string")
       ELSE Goto(emit([l EXCEPT !.pos = p1 + i + 1], "QuotedString"), "lexMessageText")

HexDigits == Digits \cup (97..102) \cup (65..70)

lexNumber(l) ==
    LET p1 == Accept(l, l.pos, {43, 45})
        zero == RuneAt(l, p1) = 48
        p2 == Accept(l, p1, {48})
        c == RuneAt(l, p2)
        digits == IF zero /\ c \in {120, 88} THEN HexDigits
                  ELSE IF zero /\ c \in {98, 66} THEN {48, 49}
                  ELSE IF zero /\ c \in {111, 79} THEN 48..55
                  ELSE Digits
        p3 == IF zero /\ c \in {120, 88, 98, 66, 111, 79} THEN p2 + 1 ELSE p2
        p4 == AcceptRun(l, p3, digits) IN
    Let([p5 \in {IF RuneAt(l, p4) = 46 THEN AcceptRun(l, p4 + 1, digits) ELSE p4} |->
    Let([p6 \in {IF RuneAt(l, p5) \in {101, 69}
                 THEN AcceptRun(l, Accept(l, p5 + 1, {43, 45}), Digits)
                 ELSE p5} |->
       IF isAlphaNumeric(RuneAt(l, p6))
       THEN lexErrorf([l EXCEPT !.pos = p6 + 1], "invalid number syntax")
       ELSE Goto(emit([l EXCEPT !.pos = p6], "Number"), "lexMessageText")])])

\* l.state(l)
RunState(l) ==
    CASE l.state = "lexMessageHeader" -> lexMessageHeader(l)
      [] l.state = "lexMessageText" -> lexMessageText(l)
      [] l.state = "lexEOF" -> lexEOF(l)
      [] l.state = "lexComment" -> lexComment(l)
      [] l.state = "lexDataItemSize" -> lexDataItemSize(l)
      [] l.state = "lexQuotedString" -> lexQuotedString(l)
      [] l.state = "lexNumber" -> lexNumber(l)

\* lexer.nextToken: the token and the lexer after the call.  The state
\* function runs before l.lastState is assigned.
RECURSIVE nextToken(_)
nextToken(l) ==
    IF l.tokens # <<>>
    THEN [tok |-> Head(l.tokens), lx |-> [l EXCEPT !.tokens = Tail(@)]]
    ELSE IF l.closed
    THEN [tok |-> Token("EOF", <<>>, 0, 0), lx |-> l]
    ELSE Let([r \in {RunState(l)} |->
            nextToken([r.lx EXCEPT !.lastState = l.state, !.state = r.fn])])

\* The lexer does not depend on its client.  TokenStream(l) is the sequence
\* of the tokens that the successive calls of l.nextToken return until the
\* channel is closed and drained; every later call returns the EOF token of
\* the closed channel.
RECURSIVE TokenStream(_)
TokenStream(l) ==
    IF l.closed /\ l.tokens = <<>> THEN <<>>
    ELSE Let([r \in {nextToken(l)} |->
            <<r.tok>> \o TokenStream(r.lx)])

\* lexer.nextToken on a lexer held as the token stream to come
nextOfStream(ts) ==
    IF ts = <<>> THEN [tok |-> Token("EOF", <<>>, 0, 0), lx |-> ts]
    ELSE [tok |-> Head(ts), lx |-> Tail(ts)]
-----------------------------------------------------------------------------
(* The conversions of package strconv that the SML parser calls.  A result *)
(* is [val, err] with err one of "", "syntax", "range".  Numbers of the    *)
(* model stay below 2^31, so a wider text saturates there.                 *)

ToLowerCh(c) == IF c \in UpperCase THEN c + 32 ELSE c

\* the value of a digit character, 99 for every other character
DigitVal(c) ==
    IF c \in Digits THEN c - 48
    ELSE IF ToLowerCh(c) \in LowerCase THEN ToLowerCh(c) - 97 + 10
    ELSE 99

SatAdd(a, b) == IF a > 2147483647 - b THEN 2147483647 ELSE a + b
SatMul(a, b) == IF b # 0 /\ a > 2147483647 \div b THEN 2147483647 ELSE a * b

\* the digit loop of strconv.ParseUint: the value read so far, -1 after a
\* character that is no digit of the base
RECURSIVE DigitsValue(_, _, _)
DigitsValue(s, base, acc) ==
    IF s = <<>> THEN acc
    ELSE IF DigitVal(Head(s)) >= base THEN 0 - 1
    ELSE DigitsValue(Tail(s), base, SatAdd(SatMul(acc, base), DigitVal(Head(s))))

\* strconv.ParseUint(s, 0, bitSize), max the largest value of bitSize bits
ParseUintBase0(s, max) ==
    LET c2 == IF Len(s) >= 3 THEN ToLowerCh(s[2]) ELSE 0
        prefixed == Len(s) >= 1 /\ s[1] = 48
        base == IF ~prefixed THEN 10
                ELSE IF c2 = 98 THEN 2
                ELSE IF c2 = 111 THEN 8
                ELSE IF c2 = 120 THEN 16
                ELSE 8
        body == IF ~prefixed THEN s
                ELSE IF c2 \in {98, 111, 120} THEN SubSeq(s, 3, Len(s))
                ELSE Tail(s) IN
    Let([n \in {DigitsValue(body, base, 0)} |->
       IF s = <<>> \/ n < 0 THEN [val |-> 0, err |-> "syntax"]
       ELSE IF n > max THEN [val |-> max, err |-> "range"]
       ELSE [val |-> n, err |-> ""]])

\* strconv.ParseInt(s, 0, bitSize), min and max the bounds of bitSize bits
ParseIntBase0(s, min, max) ==
    LET signed == s # <<>> /\ Head(s) \in {43, 45}
        neg == s # <<>> /\ Head(s) = 45 IN
    Let([un \in {ParseUintBase0(IF signed THEN Tail(s) ELSE s, 2147483647)} |->
       IF s = <<>> \/ un.err = "syntax" THEN [val |-> 0, err |-> "syntax"]
       ELSE IF ~neg /\ un.val > max THEN [val |-> max, err |-> "range"]
       ELSE IF neg /\ 0 - un.val < min THEN [val |-> min, err |-> "range"]
       ELSE [val |-> IF neg THEN 0 - un.val ELSE un.val, err |-> ""]])

\* strconv.Atoi for the digit strings of the lexer; 0 on a syntax error
Atoi(s) ==
    Let([n \in {IF s = <<>> THEN 0 - 1 ELSE DigitsValue(s, 10, 0)} |->
       IF n < 0 THEN 0 ELSE n])

RECURSIVE Pow10(_)
Pow10(n) == IF n <= 0 THEN 1 ELSE SatMul(10, Pow10(n - 1))

\* strconv.ParseFloat for a Number token.  The mantissa is decimal digits
\* with an optional point, the exponent is optional; a base prefix other
\* than a hexadecimal float with a 'p' exponent (which the lexer never
\* emits) is a syntax error.  The floats of the model are the integers up to
\* FloatMagnitude: the value of a text that denotes no such number is left
\* undefined.
ParseFloat(s) ==
    LET signed == s # <<>> /\ Head(s) \in {43, 45}
        neg == s # <<>> /\ Head(s) = 45
        t == IF signed THEN Tail(s) ELSE s
        ni == RunLen(t, 1, Digits)
        point == ni < Len(t) /\ t[ni + 1] = 46
        nf == IF point THEN RunLen(t, ni + 2, Digits) ELSE 0
        mEnd == ni + (IF point THEN 1 + nf ELSE 0)
        hasExp == mEnd < Len(t) /\ t[mEnd + 1] \in {101, 69}
        eSigned == hasExp /\ mEnd + 1 < Len(t) /\ t[mEnd + 2] \in {43, 45}
        eNeg == eSigned /\ t[mEnd + 2] = 45
        eStart == mEnd + 2 + (IF eSigned THEN 1 ELSE 0)
        ne == IF hasExp THEN RunLen(t, eStart, Digits) ELSE 0
        end == IF hasExp THEN eStart + ne - 1 ELSE mEnd
        wellFormed == /\ ni + nf >= 1
                      /\ hasExp => ne >= 1
                      /\ end = Len(t) IN
    Let([mant \in {DigitsValue(SubSeq(t, 1, ni) \o SubSeq(t, ni + 2, ni + 1 + nf), 10, 0)} |->
    Let([e \in {IF hasExp THEN Atoi(SubSeq(t, eStart, eStart + ne - 1)) ELSE 0} |->
    LET scale == (IF eNeg THEN 0 - e ELSE e) - nf IN
    Let([abs \in {IF mant = 0 THEN 0
                  ELSE IF scale >= 0 THEN SatMul(mant, Pow10(scale))
                  ELSE mant \div Pow10(0 - scale)} |->
    LET integral == mant = 0 \/ scale >= 0 \/ mant % Pow10(0 - scale) = 0
    IN CASE ~wellFormed -> [val |-> 0, err |-> "syntax"]
         [] wellFormed /\ integral /\ abs <= FloatMagnitude ->
                [val |-> IF neg THEN 0 - abs ELSE abs, err |-> ""]])])])

\* the escapes of one character that strconv.Unquote knows in a
\* double-quoted string: \a \b \f \n \r \t \v \\
SimpleEscapes ==
    [c \in {97, 98, 102, 110, 114, 116, 118, 92} |->
        CASE c = 97 -> 7 [] c = 98 -> 8 [] c = 102 -> 12 [] c = 110 -> 10
          [] c = 114 -> 13 [] c = 116 -> 9 [] c = 118 -> 11 [] c = 92 -> 92]

\* the loop of strconv.Unquote over the text between the quotes: the
\* unquoted text, or <<-1>> on a syntax error.  Of the numeric escapes only
\* \xHH has a value here; the text of an octal, \u or \U escape is left
\* undefined.
RECURSIVE UnquoteBody(_)
UnquoteBody(s) ==
    IF s = <<>> THEN <<>>
    ELSE IF Head(s) \in {34, 10} THEN <<0 - 1>>
    ELSE IF Head(s) # 92
    THEN Let([rest \in {UnquoteBody(Tail(s))} |->
            IF rest = <<0 - 1>> THEN rest ELSE <<Head(s)>> \o rest])
    ELSE IF Len(s) >= 2 /\ s[2] \in DOMAIN SimpleEscapes
    THEN Let([rest \in {UnquoteBody(SubSeq(s, 3, Len(s)))} |->
            IF rest = <<0 - 1>> THEN rest ELSE <<SimpleEscapes[s[2]]>> \o rest])
    ELSE IF Len(s) >= 4 /\ s[2] = 120 /\ DigitVal(s[3]) < 16 /\ DigitVal(s[4]) < 16
    THEN Let([rest \in {UnquoteBody(SubSeq(s, 5, Len(s)))} |->
            IF rest = <<0 - 1>> THEN rest
            ELSE <<16 * DigitVal(s[3]) + DigitVal(s[4])>> \o rest])
    ELSE CASE ~(Len(s) >= 2 /\ s[2] \in {117, 85} \cup (48..55)) -> <<0 - 1>>

\* val, _ := strconv.Unquote(s): the empty string on an error
Unquote(s) ==
    IF Len(s) < 2 \/ s[1] # 34 \/ s[Len(s)] # 34 THEN <<>>
    ELSE Let([body \in {UnquoteBody(SubSeq(s, 2, Len(s) - 1))} |->
            IF body = <<0 - 1>> THEN <<>> ELSE body])
-----------------------------------------------------------------------------
(* The SML parser (pkg/parser/sml).  The parser is the record               *)
(* [lexer, tokenQueue, variableNames, ellipsisCount, messages, errors,      *)
(* warnings]; an operation returns the parser after the call next to its    *)
(* results.  The lexer of a parser is held as its token stream.  The text   *)
(* of a diagnostic is the format of its message.                            *)

newParser(input) ==
    [lexer |-> TokenStream(lex(input)), tokenQueue |-> <<>>, variableNames |-> {},
     ellipsisCount |-> 0, messages |-> <<>>, errors |-> <<>>, warnings |-> <<>>]

\* a parseError that drops the position of the token
parseErrorUnplaced(t, text) == [line |-> 0, col |-> 0, text |-> text]

parseError(t, text) == [line |-> t.line, col |-> t.col, text |-> text]

\* the loop of parser.peek that drops comment tokens
RECURSIVE nextNonComment(_)
nextNonComment(l) ==
    Let([r \in {nextOfStream(l)} |->
       IF r.tok.typ # "Comment" THEN r ELSE nextNonComment(r.lx)])

\* parser.peek: the parser with the next token in its queue
peeked(p) ==
    IF p.tokenQueue # <<>> THEN p
    ELSE Let([r \in {nextNonComment(p.lexer)} |->
            [p EXCEPT !.lexer = r.lx, !.tokenQueue = Append(@, r.tok)]])

peek(p) == peeked(p).tokenQueue[1]

acceptAny(p) ==
    [t |-> peek(p), p |-> [peeked(p) EXCEPT !.tokenQueue = Tail(@)]]

accept(p, typ) ==
    IF peek(p).typ = typ
    THEN [t |-> peek(p), ok |-> TRUE, p |-> acceptAny(p).p]
    ELSE [t |-> peek(p), ok |-> FALSE, p |-> peeked(p)]

\* an errorf that puts the error in front of the list
errorfInFront(p, t, text) == [p EXCEPT !.errors = <<parseError(t, text)>> \o @]

errorf(p, t, text) == [p EXCEPT !.errors = Append(@, parseError(t, text))]
warningf(p, t, text) == [p EXCEPT !.warnings = Append(@, parseError(t, text))]

\* the result of a parse function that returns an item
ItemResult(p, item, ok) == [p |-> p, item |-> item, ok |-> ok]
Failed(p) == ItemResult(p, NewEmptyItemNode, FALSE)

\* parser.getDataItemValueTokens
RECURSIVE getDataItemValueTokens(_, _)
getDataItemValueTokens(p, tokens) ==
    Let([a \in {acceptAny(p)} |->
       IF a.t.typ \in {"Number", "Bool", "QuotedString", "Variable"}
       THEN getDataItemValueTokens(a.p, Append(tokens, a.t))
       ELSE IF a.t.typ = "RightAngleBracket" THEN [tokens |-> tokens, p |-> peeked(p)]
       ELSE [tokens |-> Append(tokens, a.t), p |-> a.p]])

parseDataItemSize(p) ==
    Let([a \in {accept(p, "DataItemSize")} |->
       IF ~a.ok THEN [t |-> a.t, sizeStart |-> 0, sizeEnd |-> 0 - 1, p |-> a.p]
       ELSE
       LET val == a.t.val
           i == IndexOf(val, <<46, 46>>)
           endText == SubSeq(val, i + 3, Len(val) - 1)
       IN IF i = 0 - 1
          THEN Let([whole \in {Atoi(SubSeq(val, 2, Len(val) - 1))} |->
                  [t |-> a.t, sizeStart |-> whole, sizeEnd |-> whole, p |-> a.p]])
          ELSE [t |-> a.t, sizeStart |-> Atoi(SubSeq(val, 2, i)),
                sizeEnd |-> IF endText = <<>> THEN 0 - 1 ELSE Atoi(endText),
                p |-> a.p]])

\* a checkDataItemSizeError that takes every upper limit as it is
checkDataItemSizeErrorBounded(p, size, lowerLimit, upperLimit, t) ==
    IF ~(lowerLimit <= size /\ size <= upperLimit)
    THEN errorf(p, t, "data item size overflow")
    ELSE p

checkDataItemSizeError(p, size, lowerLimit, upperLimit, t) ==
    IF upperLimit = 0 - 1
    THEN IF lowerLimit > size THEN errorf(p, t, "data item size overflow") ELSE p
    ELSE IF ~(lowerLimit <= size /\ size <= upperLimit)
    THEN errorf(p, t, "data item size overflow")
    ELSE p

\* the loop of parseASCII over the value tokens
RECURSIVE parseASCIILoop(_, _, _, _, _, _)
parseASCIILoop(p, tokens, k, literal, minLength, maxLength) ==
    IF k > Len(tokens) THEN ItemResult(p, NewASCIINode(literal), TRUE)
    ELSE LET t == tokens[k]
         IN CASE t.typ = "QuotedString" ->
                    Let([quoted \in {Unquote(t.val)} |->
                       IF \E i \in DOMAIN quoted : quoted[i] > 127
                       THEN parseASCIILoop(errorf(p, t, "expected ASCII characters"),
                                           tokens, k + 1, literal, minLength, maxLength)
                       ELSE parseASCIILoop(p, tokens, k + 1, literal \o quoted,
                                           minLength, maxLength)])
              [] t.typ = "Number" ->
                    Let([num \in {ParseUintBase0(t.val, 2147483647)} |->
                       LET p1 == IF num.err = "syntax"
                                 THEN errorf(p, t, "expected ASCII number code") ELSE p
                           p2 == IF num.val > 127
                                 THEN errorf(p1, t, "overflows ASCII range") ELSE p1
                       IN parseASCIILoop(p2, tokens, k + 1,
                                         literal \o <<IF num.val > 127 THEN 0 ELSE num.val>>,
                                         minLength, maxLength)])
              [] t.typ = "Variable" ->
                    IF Len(tokens) # 1
                    THEN Failed(errorf(p, t, "variable cannot co-exist with other literals in ASCII data item"))
                    ELSE IF t.val \in p.variableNames
                    THEN ItemResult(errorf(p, t, "duplicated variable name"),
                                    NewASCIINode(Repeat(<<42>>, minLength)), TRUE)
                    ELSE ItemResult([p EXCEPT !.variableNames = @ \cup {t.val}],
                                    NewASCIINodeVariable(t.val, minLength, maxLength),
                                    TRUE)
              [] t.typ = "Error" -> Failed(errorf(p, t, "syntax error"))
              [] OTHER -> Failed(errorf(p, t, "expected quoted string, ASCII number code or variable"))

parseASCII(p, minLength, maxLength) ==
    Let([g \in {getDataItemValueTokens(p, <<>>)} |->
       parseASCIILoop(g.p, g.tokens, 1, <<>>, minLength, maxLength)])

\* the loop of parseBinary
RECURSIVE parseBinaryLoop(_, _, _, _)
parseBinaryLoop(p, tokens, k, values) ==
    IF k > Len(tokens) THEN ItemResult(p, NewBinaryNode(values), TRUE)
    ELSE LET t == tokens[k]
         IN CASE t.typ = "Number" ->
                    Let([num \in {ParseIntBase0(t.val, 0 - 2147483647, 2147483647)} |->
                       LET inRange == 0 <= num.val /\ num.val < 256
                       IN parseBinaryLoop(IF inRange THEN p
                                          ELSE errorf(p, t, "binary value overflow"),
                                          tokens, k + 1,
                                          Append(values,
                                                 GoInt(IF inRange THEN num.val ELSE 0)))])
              [] t.typ = "Variable" ->
                    IF t.val \in p.variableNames
                    THEN parseBinaryLoop(errorf(p, t, "duplicated variable name"),
                                         tokens, k + 1, Append(values, GoInt(0)))
                    ELSE parseBinaryLoop([p EXCEPT !.variableNames = @ \cup {t.val}],
                                         tokens, k + 1, Append(values, GoStr(t.val)))
              [] t.typ = "Error" -> Failed(errorf(p, t, "syntax error"))
              [] OTHER -> Failed(errorf(p, t, "expected number or variable"))

parseBinary(p) ==
    Let([g \in {getDataItemValueTokens(p, <<>>)} |->
       parseBinaryLoop(g.p, g.tokens, 1, <<>>)])

\* the loop of parseBoolean
RECURSIVE parseBooleanLoop(_, _, _, _)
parseBooleanLoop(p, tokens, k, values) ==
    IF k > Len(tokens) THEN ItemResult(p, NewBooleanNode(values), TRUE)
    ELSE LET t == tokens[k]
         IN CASE t.typ = "Bool" ->
                    parseBooleanLoop(p, tokens, k + 1,
                                     Append(values, GoBool(t.val = Str_T)))
              [] t.typ = "Variable" ->
                    IF t.val \in p.variableNames
                    THEN parseBooleanLoop(errorf(p, t, "duplicated variable name"),
                                          tokens, k + 1, Append(values, GoBool(FALSE)))
                    ELSE parseBooleanLoop([p EXCEPT !.variableNames = @ \cup {t.val}],
                                          tokens, k + 1, Append(values, GoStr(t.val)))
              [] t.typ = "Error" -> Failed(errorf(p, t, "syntax error"))
              [] OTHER -> Failed(errorf(p, t, "expected boolean value or variable"))

parseBoolean(p) ==
    Let([g \in {getDataItemValueTokens(p, <<>>)} |->
       parseBooleanLoop(g.p, g.tokens, 1, <<>>)])

\* the loop of parser.parseFloat
RECURSIVE smlParseFloatLoop(_, _, _, _, _)
smlParseFloatLoop(p, byteSize, tokens, k, values) ==
    IF k > Len(tokens) THEN ItemResult(p, NewFloatNode(byteSize, values), TRUE)
    ELSE LET t == tokens[k]
         IN CASE t.typ = "Number" ->
                    Let([num \in {ParseFloat(t.val)} |->
                       smlParseFloatLoop(IF num.err = "" THEN p
                                         ELSE errorf(p, t, "expected float"),
                                         byteSize, tokens, k + 1,
                                         Append(values, GoV("float64", num.val)))])
              [] t.typ = "Variable" ->
                    IF t.val \in p.variableNames
                    THEN smlParseFloatLoop(errorf(p, t, "duplicated variable name"),
                                           byteSize, tokens, k + 1, Append(values, GoInt(0)))
                    ELSE smlParseFloatLoop([p EXCEPT !.variableNames = @ \cup {t.val}],
                                           byteSize, tokens, k + 1,
                                           Append(values, GoStr(t.val)))
              [] t.typ = "Error" -> Failed(errorf(p, t, "syntax error"))
              [] OTHER -> Failed(errorf(p, t, "expected float or variable"))

smlParseFloat(p, byteSize) ==
    Let([g \in {getDataItemValueTokens(p, <<>>)} |->
       smlParseFloatLoop(g.p, byteSize, g.tokens, 1, <<>>)])

\* the loop of parser.parseInt
RECURSIVE smlParseIntLoop(_, _, _, _, _)
smlParseIntLoop(p, byteSize, tokens, k, values) ==
    IF k > Len(tokens) THEN ItemResult(p, NewIntNode(byteSize, values), TRUE)
    ELSE LET t == tokens[k]
         IN CASE t.typ = "Number" ->
                    Let([num \in {ParseIntBase0(t.val, IntMinOf(byteSize),
                                                IntMaxOf(byteSize))} |->
                       smlParseIntLoop(IF num.err = "" THEN p
                                       ELSE IF num.err = "range"
                                       THEN errorf(p, t, "range overflow")
                                       ELSE errorf(p, t, "expected integer"),
                                       byteSize, tokens, k + 1,
                                       Append(values, GoV("int64", num.val)))])
              [] t.typ = "Variable" ->
                    IF t.val \in p.variableNames
                    THEN smlParseIntLoop(errorf(p, t, "duplicated variable name"),
                                         byteSize, tokens, k + 1, Append(values, GoInt(0)))
                    ELSE smlParseIntLoop([p EXCEPT !.variableNames = @ \cup {t.val}],
                                         byteSize, tokens, k + 1,
                                         Append(values, GoStr(t.val)))
              [] t.typ = "Error" -> Failed(errorf(p, t, "syntax error"))
              [] OTHER -> Failed(errorf(p, t, "expected integer or variable"))

smlParseInt(p, byteSize) ==
    Let([g \in {getDataItemValueTokens(p, <<>>)} |->
       smlParseIntLoop(g.p, byteSize, g.tokens, 1, <<>>)])

\* the loop of parser.parseUint
RECURSIVE smlParseUintLoop(_, _, _, _, _)
smlParseUintLoop(p, byteSize, tokens, k, values) ==
    IF k > Len(tokens) THEN ItemResult(p, NewUintNode(byteSize, values), TRUE)
    ELSE LET t == tokens[k]
         IN CASE t.typ = "Number" ->
                    Let([num \in {ParseUintBase0(t.val, UintMaxOf(byteSize))} |->
                       smlParseUintLoop(IF num.err = "" THEN p
                                        ELSE IF num.err = "range"
                                        THEN errorf(p, t, "range overflow")
                                        ELSE errorf(p, t, "expected unsigned integer"),
                                        byteSize, tokens, k + 1,
                                        Append(values, GoV("uint64", num.val)))])
              [] t.typ = "Variable" ->
                    IF t.val \in p.variableNames
                    THEN smlParseUintLoop(errorf(p, t, "duplicated variable name"),
                                          byteSize, tokens, k + 1, Append(values, GoInt(0)))
                    ELSE smlParseUintLoop([p EXCEPT !.variableNames = @ \cup {t.val}],
                                          byteSize, tokens, k + 1,
                                          Append(values, GoStr(t.val)))
              [] t.typ = "Error" -> Failed(errorf(p, t, "syntax error"))
              [] OTHER -> Failed(errorf(p, t, "expected unsigned integer or variable"))

smlParseUint(p, byteSize) ==
    Let([g \in {getDataItemValueTokens(p, <<>>)} |->
       smlParseUintLoop(g.p, byteSize, g.tokens, 1, <<>>)])

Str_W == <<87>>                                     \* "W"
Str_OptW == <<91, 87, 93>>                          \* "[W]"

\* fmt.Sprintf("...[%d]", n)
EllipsisName(n) == Dots3 \o <<91>> \o Itoa(n) \o <<93>>

\* parser.parseDataItem and the loop of parser.parseList, which call each
\* other.  A panic of a constructor inside parseDataItem is recovered there,
\* with the parser as it was when the constructor was called.
RECURSIVE parseDataItem(_)
RECURSIVE parseList(_, _, _)
parseList(p, values, count) ==
    Let([t \in {peek(p)} |->
       CASE t.typ = "LeftAngleBracket" ->
                Let([child \in {parseDataItem(peeked(p))} |->
                   IF ~child.ok THEN Failed(child.p)
                   ELSE parseList(child.p, Append(values, GoItem(child.item)),
                                  count + 1)])
         [] t.typ = "Variable" ->
                Let([a \in {acceptAny(p)} |->
                   IF t.val \in p.variableNames
                   THEN parseList(errorf(a.p, t, "duplicated variable name"),
                                  Append(values, GoItem(NewEmptyItemNode)), count + 1)
                   ELSE parseList([a.p EXCEPT !.variableNames = @ \cup {t.val}],
                                  Append(values, GoStr(t.val)), count + 1)])
         [] t.typ = "Ellipsis" ->
                Let([a \in {acceptAny(p)} |->
                   IF count = 0
                   THEN Failed(errorf(a.p, t, "ellipsis cannot be the first item in list"))
                   ELSE LET val == EllipsisName(a.p.ellipsisCount)
                            counted == [a.p EXCEPT !.ellipsisCount = @ + 1]
                        IN parseList(IF t.val # Dots3 /\ t.val # val
                                     THEN warningf(counted, t, "wrong ellipsis count")
                                     ELSE counted,
                                     Append(values, GoStr(val)), count + 1)])
         [] t.typ = "RightAngleBracket" -> ItemResult(peeked(p), NewListNode(values), TRUE)
         [] t.typ = "Error" -> Failed(errorf(peeked(p), t, "syntax error"))
         [] OTHER -> Failed(errorf(peeked(p), t,
                                   "expected child data item, variable, ellipsis, or '>'"))])

\* the switch of parseDataItem on the data item type
parseByType(p, dataItemType, sizeStart, sizeEnd) ==
    CASE dataItemType = Str_L -> parseList(p, <<>>, 0)
      [] dataItemType = Str_A -> parseASCII(p, sizeStart, sizeEnd)
      [] dataItemType = Str_B -> parseBinary(p)
      [] dataItemType = Str_BOOLEAN -> parseBoolean(p)
      [] dataItemType[1] = 70 /\ Len(dataItemType) = 2 ->
            smlParseFloat(p, dataItemType[2] - 48)
      [] dataItemType[1] = 73 -> smlParseInt(p, dataItemType[2] - 48)
      [] dataItemType[1] = 85 -> smlParseUint(p, dataItemType[2] - 48)

parseDataItem(p) ==
    Let([lab \in {accept(p, "LeftAngleBracket")} |->
    IF ~lab.ok THEN Failed(errorf(lab.p, lab.t, "expected '<'"))
    ELSE
    Let([typ \in {accept(lab.p, "DataItemType")} |->
    IF ~typ.ok THEN Failed(errorf(typ.p, typ.t, "invalid data item type"))
    ELSE
    Let([t \in {peek(typ.p)} |->
    IF t.typ = "Error" THEN Failed(errorf(peeked(typ.p), t, "syntax error"))
    ELSE
    Let([sz \in {IF t.typ = "DataItemSize" THEN parseDataItemSize(typ.p)
                 ELSE [t |-> Token("EOF", <<>>, 0, 0), sizeStart |-> 0,
                       sizeEnd |-> 0 - 1, p |-> peeked(typ.p)]} |->
    Let([r \in {parseByType(sz.p, typ.t.val, sz.sizeStart, sz.sizeEnd)} |->
    IF IsPanic(r.item)
    THEN Failed(warningf(errorf(r.p, lab.t, "panic"), lab.t, "Recovered from panic"))
    ELSE IF ~r.ok THEN Failed(r.p)
    ELSE
    Let([checked \in {IF Size(r.item) >= 0
                      THEN checkDataItemSizeError(r.p, Size(r.item), sz.sizeStart,
                                                  sz.sizeEnd, sz.t)
                      ELSE r.p} |->
    Let([rab \in {accept(checked, "RightAngleBracket")} |->
    IF ~rab.ok THEN Failed(errorf(rab.p, rab.t, "expected '>'"))
    ELSE ItemResult(rab.p, r.item, TRUE)])])])])])])])

parseStreamFunctionCode(p) ==
    Let([a \in {accept(p, "StreamFunction")} |->
    IF ~a.ok
    THEN [stream |-> 0 - 1, function |-> 0 - 1, ok |-> FALSE,
          p |-> errorf(a.p, a.t, "expected stream function")]
    ELSE
    LET i == IndexOf(a.t.val, Str_F) IN
    Let([stream \in {Atoi(SubSeq(a.t.val, 2, i))} |->
    Let([function \in {Atoi(SubSeq(a.t.val, i + 2, Len(a.t.val)))} |->
    LET streamOK == 0 <= stream /\ stream < 128
        functionOK == 0 <= function /\ function < 256
        p1 == IF streamOK THEN a.p
              ELSE errorf(a.p, a.t, "stream code range overflow")
        p2 == IF functionOK THEN p1
              ELSE errorf(p1, a.t, "function code range overflow")
    IN [stream |-> IF streamOK THEN stream ELSE 0,
        function |-> IF functionOK THEN function ELSE 0, ok |-> TRUE, p |-> p2]])])])

parseMessageText(p) ==
    Let([t \in {peek(p)} |->
       CASE t.typ = "MessageEnd" -> ItemResult(peeked(p), NewEmptyItemNode, TRUE)
         [] t.typ = "LeftAngleBracket" -> parseDataItem(p)
         [] OTHER -> Failed(errorf(peeked(p), t, "expected '<' or '.'"))])

\* parser.parseMessage: the parser after the call and the returned ok
parseMessage(p0) ==
    Let([sf \in {parseStreamFunctionCode([p0 EXCEPT !.variableNames = {},
                                                    !.ellipsisCount = 0])} |->
    IF ~sf.ok THEN [p |-> sf.p, ok |-> FALSE]
    ELSE
    Let([w \in {accept(sf.p, "WaitBit")} |->
    LET waitBit == IF ~w.ok THEN 0
                   ELSE IF w.t.val = Str_W THEN (IF sf.function % 2 = 0 THEN 0 ELSE 1)
                   ELSE IF w.t.val = Str_OptW THEN 2
                   ELSE 0
        p1 == IF w.ok /\ w.t.val = Str_W /\ sf.function % 2 = 0
              THEN errorf(w.p, w.t, "wait bit cannot be true on reply message")
              ELSE w.p IN
    Let([d \in {accept(p1, "Direction")} |->
    LET direction == IF d.ok THEN d.t.val ELSE DirBoth
        p2 == IF d.ok THEN d.p
              ELSE warningf(d.p, d.t, "missing message direction") IN
    Let([n \in {accept(p2, "MessageName")} |->
    LET msgName == IF n.ok THEN n.t.val ELSE <<>> IN
    Let([text \in {parseMessageText(n.p)} |->
    IF ~text.ok THEN [p |-> text.p, ok |-> FALSE]
    ELSE
    Let([e \in {accept(text.p, "MessageEnd")} |->
    IF ~e.ok
    THEN [p |-> errorf(e.p, e.t, "expected message end character '.'"), ok |-> FALSE]
    ELSE
    Let([message \in {NewDataMessage(msgName, sf.stream, sf.function, waitBit,
                                     direction, text.item)} |->
    [p |-> [e.p EXCEPT !.messages = Append(@, message)], ok |-> TRUE]])])])])])])])

\* the loop of Parse
RECURSIVE parseMessages(_)
parseMessages(p) ==
    IF peek(p).typ = "EOF" THEN peeked(p)
    ELSE Let([r \in {parseMessage(p)} |->
            IF r.ok THEN parseMessages(r.p) ELSE r.p])

\* a Parse that returns the parsed messages whatever the errors are
smlParseKeep(input) ==
    Let([p \in {parseMessages(newParser(input))} |->
       [messages |-> p.messages, errors |-> p.errors, warnings |-> p.warnings]])

\* a Parse that returns no message as soon as it holds any diagnostic
smlParseStrict(input) ==
    Let([p \in {parseMessages(newParser(input))} |->
       [messages |-> IF Len(p.errors) + Len(p.warnings) > 0 THEN <<>> ELSE p.messages,
        errors |-> p.errors, warnings |-> p.warnings]])

\* sml.Parse
smlParse(input) ==
    Let([p \in {parseMessages(newParser(input))} |->
       [messages |-> IF Len(p.errors) > 0 THEN <<>> ELSE p.messages,
        errors |-> p.errors, warnings |-> p.warnings]])
----------------------------------------------------------------------------
(* State                                                                   *)

VARIABLES
    hsmsPc,     \* HSMS scenario: "idle", "built", "encoded" or "decoded"
    message,    \* HSMS scenario: the message built by a constructor
    wire,       \* HSMS scenario: the bytes ToBytes returned
    decoded,    \* HSMS scenario: what hsms.Parse returned, [msg, ok]
    slices,     \* heap: the backing arrays of the systemBytes slices
    items,      \* heap: the root item nodes
    msgs,       \* heap: the DataMessage objects; systemBytes and dataItem
                \* are references into slices and items
    lastCall,   \* heap: the last call, [op, rcv, ret, panicked]
    seen,       \* heap: what the observers of every message and item
                \* returned when the object was created, [ms, its]
    smlPc,      \* SML scenario: "idle", "parsed", "printed" or "reparsed"
    smlInput,   \* SML scenario: the text given to sml.Parse
    smlParsed,  \* SML scenario: what sml.Parse returned,
                \* [messages, errors, warnings]
    smlPrinted, \* SML scenario: String() of every returned message
    smlReparsed,\* SML scenario: what sml.Parse returned for every printed text
    fillPc,     \* fill scenario: "idle" or "filled"
    fillTarget, \* fill scenario: the item FillVariables is called on
    fillValues, \* fill scenario: the map given to FillVariables
    fillResult, \* fill scenario: the item FillVariables returned, or Panic
    callPc,      \* call scenario: "idle" or "returned"
    called,    \* call scenario: the function called and its arguments
    callRet,     \* call scenario: what the call returned, or Panic
    lexPc,      \* lexer scenario: "idle", "ready" (no call in progress),
                \* "select" (nextToken at its select), "blocked" (a send
                \* on the full channel) or "panicked" (a nil state function)
    lexer,      \* lexer scenario: the lexer
    lexTok,     \* lexer scenario: the token nextToken returned last
    held        \* client scenario: the byte slices the client holds, each
                \* [ref, from]: a reference into slices and where the
                \* client has it from

hsmsVars == <<hsmsPc, message, wire, decoded>>

heapVars == <<slices, items, msgs, lastCall, seen>>

smlVars == <<smlPc, smlInput, smlParsed, smlPrinted, smlReparsed>>

fillVars == <<fillPc, fillTarget, fillValues, fillResult>>

callVars == <<callPc, called, callRet>>

lexVars == <<lexPc, lexer, lexTok>>

clientVars == <<held>>

vars == <<hsmsPc, message, wire, decoded, slices, items, msgs, lastCall, seen,
          smlPc, smlInput, smlParsed, smlPrinted, smlReparsed,
          fillPc, fillTarget, fillValues, fillResult,
          callPc, called, callRet,
          lexPc, lexer, lexTok,
          held>>

\* what the actions of one scenario leave alone
notHsms == <<heapVars, smlVars, fillVars, callVars, lexVars, clientVars>>
notHeap == <<hsmsVars, smlVars, fillVars, callVars, lexVars, clientVars>>
notSml == <<hsmsVars, heapVars, fillVars, callVars, lexVars, clientVars>>
notFill == <<hsmsVars, heapVars, smlVars, callVars, lexVars, clientVars>>
notCall == <<hsmsVars, heapVars, smlVars, fillVars, lexVars, clientVars>>
notLex == <<hsmsVars, heapVars, smlVars, fillVars, callVars, clientVars>>
notClient == <<hsmsVars, smlVars, fillVars, callVars, lexVars>>

NoResult == [msg |-> Nil, ok |-> FALSE]

HsmsIdle ==
    /\ hsmsPc = "idle"
    /\ message = Nil
    /\ wire = <<>>
    /\ decoded = NoResult

NoCall == [op |-> "none", rcv |-> 0, ret |-> 0, panicked |-> FALSE]

HeapIdle ==
    /\ slices = <<>>
    /\ items = <<>>
    /\ msgs = <<>>
    /\ lastCall = NoCall
    /\ seen = [ms |-> <<>>, its |-> <<>>]


NoParse == [messages |-> <<>>, errors |-> <<>>, warnings |-> <<>>]

SmlIdle ==
    /\ smlPc = "idle"
    /\ smlInput = <<>>
    /\ smlParsed = NoParse
    /\ smlPrinted = <<>>
    /\ smlReparsed = <<>>

FillIdle ==
    /\ fillPc = "idle"
    /\ fillTarget = NewEmptyItemNode
    /\ fillValues = <<>>
    /\ fillResult = NewEmptyItemNode

NotCalled == [op |-> "none"]

CallIdle ==
    /\ callPc = "idle"
    /\ called = NotCalled
    /\ callRet = NewEmptyItemNode

NoToken == Token("none", <<>>, 0, 0)

LexIdle ==
    /\ lexPc = "idle"
    /\ lexer = lex(<<>>)
    /\ lexTok = NoToken

ClientIdle == held = {}
----------------------------------------------------------------------------
(* The HSMS scenario: a message is built by a constructor, encoded by      *)
(* ToBytes and decoded by hsms.Parse                                       *)

\* the length of the long ASCII string of the scenario: its length needs two
\* length bytes
LongLen == 256

\* the deepest nesting of the lists of the scenario
MaxDepth == 2

IntSamples(byteSize) ==
    {<<>>, <<GoInt(0)>>, <<GoInt(0 - 1), GoInt(IntMaxOf(byteSize))>>,
     <<GoInt(IntMinOf(byteSize)), GoInt(1), GoInt(100)>>}

UintSamples(byteSize) ==
    {<<>>, <<GoInt(0)>>, <<GoInt(1), GoInt(UintMaxOf(byteSize))>>}

FloatSamples ==
    {<<>>, <<GoInt(0)>>, <<GoInt(0 - 3), GoInt(5)>>,
     <<GoInt(FloatMagnitude), GoInt(1), GoInt(0 - 1000)>>}

\* variable-free items that are not lists
HsmsLeaves ==
    {NewASCIINode(<<>>), NewASCIINode(<<97, 98>>), NewASCIINode(<<0, 34, 127>>),
     NewASCIINode(Repeat(<<97>>, LongLen)),
     NewBinaryNode(<<>>), NewBinaryNode(<<GoInt(1)>>),
     NewBinaryNode(<<GoInt(0), GoInt(255)>>),
     NewBooleanNode(<<>>), NewBooleanNode(<<GoBool(TRUE), GoBool(FALSE)>>)}
    \cup {NewIntNode(b, vs) : b \in {1, 2, 4, 8}, vs \in IntSamples(1)}
    \cup {NewIntNode(b, vs) : b \in {2, 4, 8}, vs \in IntSamples(2)}
    \cup {NewIntNode(b, vs) : b \in {4, 8}, vs \in IntSamples(4)}
    \cup {NewUintNode(b, vs) : b \in {1, 2, 4, 8}, vs \in UintSamples(1)}
    \cup {NewUintNode(b, vs) : b \in {2, 4, 8}, vs \in UintSamples(2)}
    \cup {NewUintNode(b, vs) : b \in {4, 8}, vs \in UintSamples(4)}
    \cup {NewFloatNode(b, vs) : b \in {4, 8}, vs \in FloatSamples}

RECURSIVE HsmsLists(_)
\* the lists of nesting depth exactly d (d >= 1) of the scenario
HsmsLists(d) ==
    IF d <= 1
    THEN {NewListNode(<<>>)}
         \cup {NewListNode(<<GoItem(x)>>) : x \in HsmsLeaves}
         \cup {NewListNode(<<GoItem(NewASCIINode(<<97, 98>>)), GoItem(x),
                             GoItem(NewBooleanNode(<<GoBool(TRUE)>>))>>) :
                 x \in {NewIntNode(1, <<GoInt(7)>>), NewBinaryNode(<<GoInt(1)>>)}}
    ELSE {NewListNode(<<GoItem(x)>>) : x \in HsmsLists(d - 1)}
         \cup {NewListNode(<<GoItem(NewListNode(<<>>)), GoItem(x),
                             GoItem(NewUintNode(2, <<GoInt(513)>>))>>) :
                 x \in HsmsLists(d - 1)}

\* the variable-free items of nesting depth MaxDepth at most, and no item
HsmsItems ==
    HsmsLeaves \cup UNION {HsmsLists(d) : d \in 1..MaxDepth}
    \cup {NewEmptyItemNode}

HsmsNames == {<<>>, <<88>>}
HsmsSessionIDs == {0, 258, 65535}
HsmsSystemBytes == {<<0, 0, 0, 0>>, <<1, 2, 3, 255>>}
HsmsStatus == {0, 1, 255}

\* stream, function and wait bit of the messages of the scenario
HsmsCodes == {<<0, 0, 0>>, <<1, 1, 1>>, <<127, 255, 1>>, <<127, 254, 0>>,
              <<5, 2, 1>>}

\* NewHSMSDataMessage
HsmsNewDataMessage ==
    /\ hsmsPc = "idle"
    /\ \E name \in HsmsNames, code \in HsmsCodes,
          direction \in {DirHE, DirBoth}, dataItem \in HsmsItems,
          sessionID \in {0, 65535}, systemBytes \in HsmsSystemBytes :
            \E m \in {NewHSMSDataMessage(name, code[1], code[2], code[3],
                                           direction, dataItem, sessionID, systemBytes)} :
               /\ ~IsPanic(m)
               /\ message' = m
    /\ hsmsPc' = "built"
    /\ UNCHANGED <<wire, decoded>>
    /\ UNCHANGED notHsms

\* the messages the eight control-message constructors build
ControlMessages ==
    LET reqs(make(_, _)) == {make(s, b) : s \in HsmsSessionIDs, b \in HsmsSystemBytes}
        selectReqs == reqs(NewHSMSMessageSelectReq)
        deselectReqs == reqs(NewHSMSMessageDeselectReq)
        linktestReqs == {NewHSMSMessageLinktestReq(b) : b \in HsmsSystemBytes}
    IN selectReqs \cup deselectReqs \cup linktestReqs
       \cup reqs(NewHSMSMessageSeparateReq)
       \cup {NewHSMSMessageSelectRsp(r, st) : r \in selectReqs, st \in HsmsStatus}
       \cup {NewHSMSMessageDeselectRsp(r, st) : r \in deselectReqs, st \in HsmsStatus}
       \cup {NewHSMSMessageLinktestRsp(r) : r \in linktestReqs}
       \cup {NewHSMSMessageRejectReq(s, p, t, b, rc) :
                s \in HsmsSessionIDs, p \in {0, 7}, t \in {0, 8},
                b \in HsmsSystemBytes, rc \in {1, 2, 4}}

\* one of the NewHSMSMessage... constructors
HsmsNewControlMessage ==
    /\ hsmsPc = "idle"
    /\ \E m \in ControlMessages : message' = m
    /\ hsmsPc' = "built"
    /\ UNCHANGED <<wire, decoded>>
    /\ UNCHANGED notHsms

\* HSMSMessage.ToBytes()
HsmsEncode ==
    /\ hsmsPc = "built"
    /\ wire' = HSMSToBytes(message)
    /\ hsmsPc' = "encoded"
    /\ UNCHANGED <<message, decoded>>
    /\ UNCHANGED notHsms

\* hsms.Parse
HsmsDecode ==
    /\ hsmsPc = "encoded"
    /\ decoded' = hsmsParse(SliceOf(wire))
    /\ hsmsPc' = "decoded"
    /\ UNCHANGED <<message, wire>>
    /\ UNCHANGED notHsms

\* the next round
HsmsReset ==
    /\ hsmsPc = "decoded"
    /\ hsmsPc' = "idle"
    /\ message' = Nil
    /\ wire' = <<>>
    /\ decoded' = NoResult
    /\ UNCHANGED notHsms

InitHsms == HsmsIdle /\ HeapIdle /\ SmlIdle /\ FillIdle /\ CallIdle /\ LexIdle
    /\ ClientIdle

NextHsms ==
    \/ HsmsNewDataMessage
    \/ HsmsNewControlMessage
    \/ HsmsEncode
    \/ HsmsDecode
    \/ HsmsReset

SpecHsms == InitHsms /\ [][NextHsms]_vars

----------------------------------------------------------------------------
(* Properties of the HSMS scenario                                         *)

\* a data message was built, encoded and decoded
DataDecoded == hsmsPc = "decoded" /\ message.typ = "data message"

\* a control message was built, encoded and decoded
ControlDecoded == hsmsPc = "decoded" /\ message.typ = "control message"

\* C1: for every HSMS-serializable DataMessage m, hsms.Parse(m.ToBytes())
\* succeeds and returns a DataMessage equal to m in stream, function, wait
\* bit, session id, system bytes and root item, with direction "H<->E" and
\* an empty name, whatever the type, depth and element count of the item.
C1_DataRoundTrip ==
    DataDecoded =>
        /\ decoded.ok
        /\ decoded.msg.typ = "data message"
        /\ decoded.msg.stream = message.stream
        /\ decoded.msg.function = message.function
        /\ decoded.msg.waitBit = message.waitBit
        /\ decoded.msg.sessionID = message.sessionID
        /\ decoded.msg.systemBytes = message.systemBytes
        /\ decoded.msg.dataItem = message.dataItem
        /\ decoded.msg.direction = DirBoth
        /\ decoded.msg.name = <<>>

\* the decoder rejects the encoding of a message whose item is <B[1] 0b1>
C1_BinaryRejected ==
    /\ DataDecoded
    /\ message.dataItem = NewBinaryNode(<<GoInt(1)>>)
    /\ Len(wire) = 17
    /\ ~decoded.ok

\* the decoder accepts the encoding of a message whose item is an ASCII
\* string of LongLen characters and returns another item
C1_LongItemChanged ==
    /\ DataDecoded
    /\ message.dataItem = NewASCIINode(Repeat(<<97>>, LongLen))
    /\ decoded.ok
    /\ decoded.msg.dataItem # message.dataItem

\* C2: for each of the eight control-message kinds, decoding the bytes that
\* ToBytes() returns for a message built by the constructor of the kind
\* succeeds and yields a ControlMessage with the same Type() and the same
\* 14 bytes.
C2_ControlRoundTrip ==
    ControlDecoded =>
        /\ Len(wire) = 14
        /\ decoded.ok
        /\ decoded.msg.typ = "control message"
        /\ Type(decoded.msg) = Type(message)
        /\ Type(message) \in {"select.req", "select.rsp", "deselect.req",
                              "deselect.rsp", "linktest.req", "linktest.rsp",
                              "reject.req", "separate.req"}
        /\ ControlToBytes(decoded.msg) = wire

\* a reject.req carrying nonzero bytes in every field was decoded
C2_RejectDecoded ==
    /\ ControlDecoded
    /\ Type(message) = "reject.req"
    /\ message.header[3] # 0 /\ message.header[4] # 0 /\ message.header[10] # 0
    /\ decoded.ok

-----------------------------------------------------------------------------
(* The SML scenario: a text is parsed, every returned message is printed   *)
(* with String(), and every printed text is parsed again.                  *)

\* message headers, with and without diagnostics
SmlHeaders ==
    {<<83, 49, 70, 49, 32, 87, 32, 72, 45, 62, 69>>,
        \* 'S1F1 W H->E'
     <<83, 49, 70, 49, 32, 72, 45, 62, 69, 32, 110, 97, 109, 101>>,
        \* 'S1F1 H->E name'
     <<83, 50, 70, 50, 32, 72, 60, 45, 69>>,
        \* 'S2F2 H<-E'
     <<83, 54, 70, 49, 49, 32, 91, 87, 93, 32, 72, 60, 45, 62, 69>>,
        \* 'S6F11 [W] H<->E'
     <<115, 49, 102, 51, 32, 119, 32, 104, 45, 62, 101>>,
        \* 's1f3 w h->e'
     <<83, 49, 70, 50, 32, 87, 32, 72, 45, 62, 69>>,
        \* 'S1F2 W H->E'
     <<83, 49, 70, 49>>,
        \* 'S1F1'
     <<83, 49, 50, 56, 70, 49, 32, 72, 45, 62, 69>>,
        \* 'S128F1 H->E'
     <<83, 49, 70, 50, 53, 54, 32, 87>>,
        \* 'S1F256 W'
     <<47, 47, 32, 99, 10, 83, 49, 70, 49, 32, 72, 45, 62, 69>>,
        \* '// c\nS1F1 H->E'
     <<72, 45, 62, 69>>}
        \* 'H->E'

\* message texts: valid items, items with a warning, items with errors
SmlBodies ==
    {<<>>,
        \* ''
     <<60, 65, 32, 34, 97, 98, 34, 62>>,
        \* '<A "ab">'
     <<60, 65, 32, 48, 120, 50, 50, 62>>,
        \* '<A 0x22>'
     <<60, 65, 32, 48, 120, 53, 67, 62>>,
        \* '<A 0x5C>'
     <<60, 65, 32, 34, 97, 34, 32, 48, 120, 48, 65, 32, 34, 98, 34, 62>>,
        \* '<A "a" 0x0A "b">'
     <<60, 65, 91, 50, 93, 32, 118, 62>>,
        \* '<A[2] v>'
     <<60, 65, 91, 49, 46, 46, 51, 93, 32, 118, 62>>,
        \* '<A[1..3] v>'
     <<60, 65, 32, 118, 62>>,
        \* '<A v>'
     <<60, 65, 62>>,
        \* '<A>'
     <<60, 76, 62>>,
        \* '<L>'
     <<60, 76, 32, 60, 65, 32, 34, 120, 34, 62, 32, 118, 32, 46, 46, 46, 62>>,
        \* '<L <A "x"> v ...>'
     <<60, 76, 32, 118, 32, 46, 46, 46, 32, 60, 76, 32, 119, 32, 46, 46, 46, 91, 49, 93, 62, 62>>,
        \* '<L v ... <L w ...[1]>>'
     <<60, 76, 91, 50, 93, 32, 60, 85, 49, 32, 49, 62, 32, 60, 73, 50, 32, 45, 53, 32, 120, 62, 62>>,
        \* '<L[2] <U1 1> <I2 -5 x>>'
     <<60, 66, 32, 48, 98, 49, 32, 48, 120, 70, 70, 62>>,
        \* '<B 0b1 0xFF>'
     <<60, 66, 62>>,
        \* '<B>'
     <<60, 66, 79, 79, 76, 69, 65, 78, 32, 84, 32, 70, 62>>,
        \* '<BOOLEAN T F>'
     <<60, 66, 79, 79, 76, 69, 65, 78, 32, 98, 62>>,
        \* '<BOOLEAN b>'
     <<60, 70, 52, 32, 49, 101, 51, 32, 45, 50, 53, 62>>,
        \* '<F4 1e3 -25>'
     <<60, 70, 56, 32, 49, 48, 48, 48, 48, 48, 48, 62>>,
        \* '<F8 1000000>'
     <<60, 73, 49, 32, 45, 49, 50, 56, 32, 49, 50, 55, 62>>,
        \* '<I1 -128 127>'
     <<60, 73, 52, 32, 120, 32, 121, 62>>,
        \* '<I4 x y>'
     <<60, 85, 50, 32, 54, 53, 53, 51, 53, 62>>,
        \* '<U2 65535>'
     <<60, 85, 56, 32, 48, 62>>,
        \* '<U8 0>'
     <<60, 85, 49, 91, 49, 46, 46, 50, 93, 32, 48, 111, 49, 55, 32, 48, 49, 48, 62>>,
        \* '<U1[1..2] 0o17 010>'
     <<60, 76, 32, 47, 47, 32, 99, 10, 32, 60, 65, 32, 34, 120, 34, 62, 62>>,
        \* '<L // c\n <A "x">>'
     <<60, 76, 32, 97, 32, 46, 46, 46, 91, 53, 93, 62>>,
        \* '<L a ...[5]>'
     <<60, 73, 49, 32, 51, 48, 48, 62>>,
        \* '<I1 300>'
     <<60, 85, 49, 32, 45, 49, 62>>,
        \* '<U1 -1>'
     <<60, 65, 32, 34, 97, 98, 99>>,
        \* '<A "abc'
     <<60, 76, 32, 46, 46, 46, 62>>,
        \* '<L ...>'
     <<60, 76, 32, 120, 32, 120, 62>>,
        \* '<L x x>'
     <<60, 88, 32, 49, 62>>,
        \* '<X 1>'
     <<60, 65, 91, 51, 46, 46, 49, 93, 32, 118, 62>>,
        \* '<A[3..1] v>'
     <<60, 65, 91, 50, 93, 32, 34, 97, 98, 99, 34, 62>>,
        \* '<A[2] "abc">'
     <<60, 66, 32, 50, 53, 54, 62>>,
        \* '<B 256>'
     <<60, 70, 52, 32, 48, 120, 49, 48, 62>>,
        \* '<F4 0x10>'
     <<60, 73, 50, 32, 49, 32, 36, 62>>,
        \* '<I2 1 $>'
     <<60, 85, 49, 32, 49>>,
        \* '<U1 1'
     <<60, 65, 91, 120, 93, 62>>,
        \* '<A[x]>'
     <<60, 73, 49, 32, 49, 50, 97, 98, 62>>}
        \* '<I1 12ab>'

\* complete messages that parse without diagnostics
SmlLeading ==
    {<<83, 49, 70, 49, 32, 87, 32, 72, 45, 62, 69, 10, 60, 65, 32, 34, 97, 98, 34, 62, 10, 46>>,
        \* 'S1F1 W H->E\n<A "ab">\n.'
     <<83, 50, 70, 50, 32, 72, 60, 45, 69, 10, 46>>}
        \* 'S2F2 H<-E\n.'

\* texts of the second message of an input of two
SmlTrailing ==
    {<<60, 65, 32, 34, 97, 98, 34, 62>>,
        \* '<A "ab">'
     <<60, 73, 49, 32, 51, 48, 48, 62>>,
        \* '<I1 300>'
     <<60, 76, 32, 120, 32, 120, 62>>,
        \* '<L x x>'
     <<60, 65, 32, 34, 97, 98, 99>>,
        \* '<A "abc'
     <<60, 76, 32, 97, 32, 46, 46, 46, 91, 53, 93, 62>>}
        \* '<L a ...[5]>'

\* a message: the header, a line break, the text when there is one, and the
\* message end character
SmlText(header, body) ==
    IF body = <<>> THEN header \o <<10, 46>>
    ELSE header \o <<10>> \o body \o <<10, 46>>

SmlSingles == {SmlText(h, b) : h \in SmlHeaders, b \in SmlBodies}

\* inputs of two messages: the first one parses, the second one is any
SmlPairs ==
    {a \o <<10>> \o SmlText(h, b) :
        a \in SmlLeading, h \in SmlHeaders, b \in {<<>>} \cup SmlTrailing}

SmlInputs == SmlSingles \cup SmlPairs

SmlParse ==
    /\ smlPc = "idle"
    /\ \E input \in SmlInputs :
          /\ smlInput' = input
          /\ smlParsed' = smlParse(input)
    /\ smlPc' = "parsed"
    /\ UNCHANGED <<smlPrinted, smlReparsed>>
    /\ UNCHANGED notSml

SmlPrint ==
    /\ smlPc = "parsed"
    /\ smlPrinted' = [k \in DOMAIN smlParsed.messages |->
                         MessageString(smlParsed.messages[k])]
    /\ smlPc' = "printed"
    /\ UNCHANGED <<smlInput, smlParsed, smlReparsed>>
    /\ UNCHANGED notSml

SmlReparse ==
    /\ smlPc = "printed"
    /\ smlReparsed' = [k \in DOMAIN smlPrinted |-> smlParse(smlPrinted[k])]
    /\ smlPc' = "reparsed"
    /\ UNCHANGED <<smlInput, smlParsed, smlPrinted>>
    /\ UNCHANGED notSml

SmlReset ==
    /\ smlPc = "reparsed"
    /\ smlPc' = "idle"
    /\ smlInput' = <<>>
    /\ smlParsed' = NoParse
    /\ smlPrinted' = <<>>
    /\ smlReparsed' = <<>>
    /\ UNCHANGED notSml

InitSml == HsmsIdle /\ HeapIdle /\ SmlIdle /\ FillIdle /\ CallIdle /\ LexIdle
    /\ ClientIdle

NextSml ==
    \/ SmlParse
    \/ SmlPrint
    \/ SmlReparse
    \/ SmlReset

SpecSml == InitSml /\ [][NextSml]_vars
-----------------------------------------------------------------------------
(* Claims about the SML parser                                             *)

NoDiagnostics(r) == r.errors = <<>> /\ r.warnings = <<>>

\* C3: for every input that sml.Parse accepts with no errors and no
\* warnings, parsing the printed form of each returned message again yields
\* exactly one message, no errors and no warnings, and that message equals
\* the original one.
C3_PrintParseRoundTrip ==
    (smlPc = "reparsed" /\ NoDiagnostics(smlParsed)) =>
        \A k \in DOMAIN smlParsed.messages :
            smlReparsed[k] = [messages |-> <<smlParsed.messages[k]>>,
                              errors |-> <<>>, warnings |-> <<>>]

\* an accepted input whose printed form is rejected: an ASCII item holding
\* a double quote
C3_QuoteRejected ==
    /\ smlPc = "reparsed"
    /\ NoDiagnostics(smlParsed)
    /\ \E k \in DOMAIN smlParsed.messages :
          /\ smlParsed.messages[k].dataItem = NewASCIINode(<<34>>)
          /\ smlReparsed[k].errors # <<>>
          /\ smlReparsed[k].messages = <<>>

\* an accepted input whose printed form parses to another message: an ASCII
\* item holding a backslash
C3_BackslashChanged ==
    /\ smlPc = "reparsed"
    /\ NoDiagnostics(smlParsed)
    /\ \E k \in DOMAIN smlParsed.messages :
          /\ smlParsed.messages[k].dataItem = NewASCIINode(<<92>>)
          /\ NoDiagnostics(smlReparsed[k])
          /\ Len(smlReparsed[k].messages) = 1
          /\ smlReparsed[k].messages[1] # smlParsed.messages[k]

\* the round trip of the inputs whose ASCII items hold neither a double
\* quote nor a backslash
RECURSIVE PlainText(_)
PlainText(item) ==
    CASE item.typ = "ascii" -> \A i \in DOMAIN item.value : item.value[i] \notin {34, 92}
      [] item.typ = "list" ->
            \A i \in DOMAIN item.values : PlainText(item.values[i])
      [] OTHER -> TRUE

C3_PlainRoundTrip ==
    (smlPc = "reparsed" /\ NoDiagnostics(smlParsed)) =>
        \A k \in DOMAIN smlParsed.messages :
            PlainText(smlParsed.messages[k].dataItem) =>
                smlReparsed[k] = [messages |-> <<smlParsed.messages[k]>>,
                                  errors |-> <<>>, warnings |-> <<>>]

\* C4: whenever sml.Parse records at least one error, it returns an empty
\* message list, also when messages were parsed before the error was met.
C4_ErrorsDiscardMessages ==
    smlPc # "idle" => (smlParsed.errors # <<>> => smlParsed.messages = <<>>)

\* an input whose first message was parsed and appended before the error of
\* the second one: nothing is returned
C4_ParsedThenDiscarded ==
    /\ smlPc = "parsed"
    /\ smlParsed.errors # <<>>
    /\ smlParsed.messages = <<>>
    /\ Len(parseMessages(newParser(smlInput)).messages) >= 1

\* the number of elements of a sequence that satisfy a test
CountIn(s, Test(_)) == Len(SelectSeq(s, Test))

IsDirectionToken(t) == t.typ = "Direction"
IsMissingDirection(w) == w.text = "missing message direction"
IsBothWays(m) == m.direction = DirBoth

\* the direction tokens the lexer finds in the input
DirectionTokens(input) == CountIn(TokenStream(lex(input)), IsDirectionToken)

\* C18: when sml.Parse records no error, it returns every message it
\* parsed, whatever the warnings are, and at least one when there is a
\* warning; each message whose header has no direction token adds one
\* "missing message direction" warning, and a single message without a
\* direction token is returned with the direction H<->E.
C18_WarningsKeepMessages ==
    (smlPc # "idle" /\ smlParsed.errors = <<>>) =>
        /\ smlParsed.messages = parseMessages(newParser(smlInput)).messages
        /\ smlParsed.warnings # <<>> => smlParsed.messages # <<>>
        /\ CountIn(smlParsed.warnings, IsMissingDirection)
              = Len(smlParsed.messages) - DirectionTokens(smlInput)
        /\ CountIn(smlParsed.messages, IsBothWays)
              >= CountIn(smlParsed.warnings, IsMissingDirection)
        /\ (Len(smlParsed.messages) = 1 /\ DirectionTokens(smlInput) = 0) =>
              smlParsed.messages[1].direction = DirBoth

\* 'S1F1' followed by <A "ab">: one message, one warning, direction H<->E
C18_NoDirectionReturned ==
    /\ smlPc = "parsed"
    /\ smlInput = SmlText(<<83, 49, 70, 49>>, <<60, 65, 32, 34, 97, 98, 34, 62>>)
    /\ smlParsed.errors = <<>>
    /\ Len(smlParsed.warnings) = 1
    /\ IsMissingDirection(smlParsed.warnings[1])
    /\ Len(smlParsed.messages) = 1
    /\ smlParsed.messages[1].direction = DirBoth
    /\ smlParsed.messages[1].dataItem = NewASCIINode(<<97, 98>>)

\* the position a is not after the position b
NotAfter(a, b) == a.line < b.line \/ (a.line = b.line /\ a.col <= b.col)

\* the positions of the diagnostics never go back
InScanOrder(ds) == \A k \in 1 .. Len(ds) - 1 : NotAfter(ds[k], ds[k + 1])
----------------------------------------------------------------------------
(* The message scenario: DataMessage objects on a heap.                    *)
(* A client builds one message (by a constructor or by a parser) and       *)
(* derives others from the objects that exist; objects hold references to  *)
(* the slices and item nodes they share.                                   *)

\* the most DataMessage objects of the scenario
MaxMsgs == 3

\* the object behind a reference: systemBytes and dataItem by value
Deref(m) == [m EXCEPT !.systemBytes = slices[m.systemBytes],
                      !.dataItem = items[m.dataItem]]

\* what the observers of message object id return
MsgObservers(id) ==
    Let([m \in {Deref(msgs[id])} |->
       [Variables |-> MessageVariables(m), WaitBit |-> WaitBit(m),
        SessionID |-> m.sessionID, SystemBytes |-> m.systemBytes,
        ToBytes |-> MessageToBytes(m), String |-> MessageString(m)]])

\* what the observers of item object r return
ItemObservers(r) ==
    [Size |-> Size(items[r]), Variables |-> Variables(items[r]),
     ToBytes |-> ToBytes(items[r]), String |-> String(items[r])]

\* the observers of every new object are called once and their results kept
Observe ==
    seen' = [ms |-> [id \in DOMAIN msgs' |->
                        IF id \in DOMAIN seen.ms THEN seen.ms[id]
                        ELSE MsgObservers(id)'],
             its |-> [r \in DOMAIN items' |->
                        IF r \in DOMAIN seen.its THEN seen.its[r]
                        ELSE ItemObservers(r)']]

VarA == <<97>>
VarB == <<98>>

\* the root items of the scenario
MsgItems ==
    {NewASCIINode(<<97, 98>>),
     NewIntNode(1, <<GoStr(VarA), GoInt(3)>>),
     NewListNode(<<GoItem(NewASCIINodeVariable(VarA, 0, 0 - 1)), GoStr(VarB),
                   GoStr(Dots3)>>)}

\* the fill maps of the scenario
MsgFills ==
    {[n \in {VarA} |-> GoInt(5)],
     [n \in {VarA, VarB, Dots3} |->
        CASE n = VarA -> GoStr(<<120>>) [] n = VarB -> GoStr(<<99>>) [] OTHER -> GoInt(1)]}

MsgSystemBytes == {<<5, 6, 7, 8, 9>>}

\* a message value stored as a new object that refers to slice s and item r
Object(m, s, r) == [m EXCEPT !.systemBytes = s, !.dataItem = r]

Called(op, rcv, ret) == [op |-> op, rcv |-> rcv, ret |-> ret, panicked |-> ret = 0]

\* NewDataMessage: a new object with a slice of its own
CallNewDataMessage ==
    /\ msgs = <<>>
    /\ \E name \in {<<>>, <<77, 32>>}, function \in {1, 2},
          waitBit \in {1, 2, 3}, dataItem \in MsgItems :
         \E m \in {NewDataMessage(name, 1, function, waitBit, DirHE, dataItem)} :
            IF IsPanic(m)
            THEN /\ lastCall' = Called("NewDataMessage", 0, 0)
                 /\ UNCHANGED <<slices, items, msgs>>
            ELSE /\ slices' = Append(slices, m.systemBytes)
                 /\ items' = Append(items, dataItem)
                 /\ msgs' = Append(msgs, Object(m, Len(slices) + 1, Len(items) + 1))
                 /\ lastCall' = Called("NewDataMessage", 0, Len(msgs) + 1)
    /\ Observe
    /\ UNCHANGED notHeap

\* NewHSMSDataMessage: a new object with a copy of the system bytes
CallNewHSMSDataMessage ==
    /\ msgs = <<>>
    /\ \E function \in {1, 2}, waitBit \in {0, 1, 2}, dataItem \in MsgItems,
          sessionID \in {0 - 1, 7}, systemBytes \in {<<9>>} :
         \E m \in {NewHSMSDataMessage(<<>>, 1, function, waitBit, DirEH, dataItem,
                                        sessionID, systemBytes)} :
            IF IsPanic(m)
            THEN /\ lastCall' = Called("NewHSMSDataMessage", 0, 0)
                 /\ UNCHANGED <<slices, items, msgs>>
            ELSE /\ slices' = Append(slices, m.systemBytes)
                 /\ items' = Append(items, dataItem)
                 /\ msgs' = Append(msgs, Object(m, Len(slices) + 1, Len(items) + 1))
                 /\ lastCall' = Called("NewHSMSDataMessage", 0, Len(msgs) + 1)
    /\ Observe
    /\ UNCHANGED notHeap

\* a SetWaitBit that writes the wait bit into its receiver
setWaitBitInPlace(ms, id, waitBit) ==
    IF ms[id].waitBit # 2 THEN ms
    ELSE [ms EXCEPT ![id].waitBit = IF waitBit THEN 1 ELSE 0]

\* a SetWaitBit that makes a new object of every receiver
setWaitBitObjectsAlways(ms, id, waitBit) ==
    Append(ms, [ms[id] EXCEPT !.waitBit = IF waitBit THEN 1 ELSE 0])

\* the objects after a SetWaitBit call that returned normally: the receiver
\* is returned as it is unless its wait bit is optional, and the new object
\* shares the slice and the item of the receiver
setWaitBitObjects(ms, id, waitBit) ==
    IF ms[id].waitBit # 2 THEN ms
    ELSE Append(ms, [ms[id] EXCEPT !.waitBit = IF waitBit THEN 1 ELSE 0])

\* DataMessage.SetWaitBit
CallSetWaitBit ==
    /\ \E id \in DOMAIN msgs, waitBit \in BOOLEAN :
         \E m \in {SetWaitBit(Deref(msgs[id]), waitBit)},
            ms \in {setWaitBitObjects(msgs, id, waitBit)} :
            /\ Len(ms) <= MaxMsgs
            /\ Len(msgs) < MaxMsgs
            /\ IF IsPanic(m)
               THEN /\ lastCall' = Called("SetWaitBit", id, 0)
                    /\ UNCHANGED msgs
               ELSE /\ msgs' = ms
                    /\ lastCall' = Called("SetWaitBit", id,
                                          IF msgs[id].waitBit # 2 THEN id ELSE Len(ms))
    /\ UNCHANGED <<slices, items>>
    /\ Observe
    /\ UNCHANGED notHeap

\* DataMessage.SetSessionIDAndSystemBytes: a new object with a copy of the
\* system bytes and the item of the receiver
CallSetSessionIDAndSystemBytes ==
    /\ Len(msgs) < MaxMsgs
    /\ \E id \in DOMAIN msgs, sessionID \in {7, 65536},
          systemBytes \in MsgSystemBytes :
         \E m \in {SetSessionIDAndSystemBytes(Deref(msgs[id]), sessionID, systemBytes)} :
            IF IsPanic(m)
            THEN /\ lastCall' = Called("SetSessionIDAndSystemBytes", id, 0)
                 /\ UNCHANGED <<slices, msgs>>
            ELSE /\ slices' = Append(slices, m.systemBytes)
                 /\ msgs' = Append(msgs, Object(m, Len(slices) + 1, msgs[id].dataItem))
                 /\ lastCall' = Called("SetSessionIDAndSystemBytes", id, Len(msgs) + 1)
    /\ UNCHANGED items
    /\ Observe
    /\ UNCHANGED notHeap

\* whether item.FillVariables returns its receiver: a list never does, a
\* scalar node does when the values fill none of its variables
fillReturnsReceiver(item, values) ==
    CASE item.typ = "list" -> FALSE
      [] item.typ = "ascii" -> item.isValue \/ item.variable.name \notin DOMAIN values
      [] item.typ = "empty" -> TRUE
      [] OTHER -> ~createNew(item, values)

\* DataMessage.FillVariables: a new object with the slice of the receiver
\* and the item that dataItem.FillVariables returned
CallFillVariables ==
    /\ Len(msgs) < MaxMsgs
    /\ \E id \in DOMAIN msgs, values \in MsgFills :
         \E m \in {MessageFillVariables(Deref(msgs[id]), values)},
            same \in {fillReturnsReceiver(items[msgs[id].dataItem], values)} :
            IF IsPanic(m)
            THEN /\ lastCall' = Called("FillVariables", id, 0)
                 /\ UNCHANGED <<items, msgs>>
            ELSE /\ items' = IF same THEN items ELSE Append(items, m.dataItem)
                 /\ msgs' = Append(msgs,
                        Object(m, msgs[id].systemBytes,
                               IF same THEN msgs[id].dataItem ELSE Len(items) + 1))
                 /\ lastCall' = Called("FillVariables", id, Len(msgs) + 1)
    /\ UNCHANGED slices
    /\ Observe
    /\ UNCHANGED notHeap

\* ItemNode.FillVariables on the item of a message: a new item object unless
\* the receiver is returned
CallItemFillVariables ==
    /\ Len(items) < MaxMsgs
    /\ Len(msgs) < MaxMsgs
    /\ \E r \in DOMAIN items, values \in MsgFills :
         \E it \in {FillVariables(items[r], values)} :
            IF IsPanic(it)
            THEN /\ lastCall' = Called("ItemFillVariables", r, 0)
                 /\ UNCHANGED items
            ELSE /\ items' = IF fillReturnsReceiver(items[r], values) THEN items
                             ELSE Append(items, it)
                 /\ lastCall' = Called("ItemFillVariables", r,
                        IF fillReturnsReceiver(items[r], values) THEN r
                        ELSE Len(items) + 1)
    /\ UNCHANGED <<slices, msgs>>
    /\ Observe
    /\ UNCHANGED notHeap

\* the frames handed to hsms.Parse: encodings of HSMS messages, and the same
\* with the wait bit set in header byte 2
MsgWires ==
    Let([frames \in {{MessageToBytes(NewHSMSDataMessage(<<>>, 1, f, 0, DirBoth, it,
                                                            7, <<1, 2, 3, 4>>)) :
                         f \in {1, 2},
                         it \in {x \in MsgItems : Variables(x) = <<>>}}} |->
       frames \cup {[w EXCEPT ![7] = w[7] + 128] : w \in frames}])

\* hsms.Parse returning a DataMessage: a new object, slice and item
CallHsmsParse ==
    /\ msgs = <<>>
    /\ \E input \in MsgWires :
         \E r \in {hsmsParse(SliceOf(input))} :
            IF ~r.ok
            THEN /\ lastCall' = Called("hsms.Parse", 0, 0)
                 /\ UNCHANGED <<slices, items, msgs>>
            ELSE /\ slices' = Append(slices, r.msg.systemBytes)
                 /\ items' = Append(items, r.msg.dataItem)
                 /\ msgs' = Append(msgs, Object(r.msg, Len(slices) + 1, Len(items) + 1))
                 /\ lastCall' = Called("hsms.Parse", 0, Len(msgs) + 1)
    /\ Observe
    /\ UNCHANGED notHeap


\* the texts handed to sml.Parse
MsgSmlInputs ==
    {SmlText(h, <<>>) : h \in SmlHeaders} \cup {a \o <<10>> \o a : a \in SmlLeading}

\* sml.Parse: every returned DataMessage is a new object with a slice and
\* an item of its own
CallSmlParse ==
    /\ msgs = <<>>
    /\ \E input \in MsgSmlInputs :
         \E r \in {smlParse(input).messages} :
            /\ Len(r) <= MaxMsgs
            /\ slices' = slices \o [k \in DOMAIN r |-> r[k].systemBytes]
            /\ items' = items \o [k \in DOMAIN r |-> r[k].dataItem]
            /\ msgs' = msgs \o [k \in DOMAIN r |->
                                   Object(r[k], Len(slices) + k, Len(items) + k)]
            /\ lastCall' = Called("sml.Parse", 0, Len(r))
    /\ Observe
    /\ UNCHANGED notHeap

InitMsg == HsmsIdle /\ HeapIdle /\ SmlIdle /\ FillIdle /\ CallIdle /\ LexIdle
    /\ ClientIdle

NextMsg ==
    \/ CallNewDataMessage
    \/ CallNewHSMSDataMessage
    \/ CallHsmsParse
    \/ CallSmlParse
    \/ CallSetWaitBit
    \/ CallSetSessionIDAndSystemBytes
    \/ CallFillVariables
    \/ CallItemFillVariables

SpecMsg == InitMsg /\ [][NextMsg]_vars
-----------------------------------------------------------------------------
(* Claims about DataMessage objects                                        *)

\* C5: every DataMessage that exists, whatever produced it, satisfies: wait
\* bit true implies the function code is odd.
C5_WaitBitOnlyOnPrimary ==
    \A id \in DOMAIN msgs :
        WaitBit(Deref(msgs[id])) = "true" => msgs[id].function % 2 = 1

\* SetWaitBit(true) on a message whose wait bit was optional returned a new
\* message whose wait bit is true
C5_WaitBitSetTrue ==
    /\ lastCall.op = "SetWaitBit"
    /\ lastCall.ret # 0
    /\ lastCall.ret # lastCall.rcv
    /\ WaitBit(Deref(msgs[lastCall.ret])) = "true"

\* C6: ToBytes returns an empty byte sequence exactly when the wait bit is
\* optional, or a variable remains in the item, or the session id is unset;
\* in every other case it returns 14 + len(item bytes) bytes.
C6_ToBytesEmptyOrFrame ==
    \A id \in DOMAIN msgs :
        LET m == Deref(msgs[id])
            unserializable == \/ WaitBit(m) = "optional"
                              \/ MessageVariables(m) # <<>>
                              \/ m.sessionID = 0 - 1
        IN /\ MessageToBytes(m) = <<>> <=> unserializable
           /\ ~unserializable =>
                 Len(MessageToBytes(m)) = 14 + Len(ToBytes(m.dataItem))

\* a message without variables and with a definite wait bit but no session
\* id, next to one derived from it that has a session id
C6_SessionMakesFrame ==
    /\ lastCall.op = "SetSessionIDAndSystemBytes"
    /\ lastCall.ret # 0
    /\ MessageToBytes(Deref(msgs[lastCall.rcv])) = <<>>
    /\ Len(MessageToBytes(Deref(msgs[lastCall.ret]))) > 14

\* C7: FillVariables, SetSessionIDAndSystemBytes and SetWaitBit never change
\* the value they are called on: after any sequence of these calls, every
\* observer of every message and item that exists returns what it returned
\* when the object was created.
C7_CallsLeaveObjectsAlone ==
    /\ \A id \in DOMAIN msgs : MsgObservers(id) = seen.ms[id]
    /\ \A r \in DOMAIN items : ItemObservers(r) = seen.its[r]

\* three messages, each derived from the one before by one of the calls
C7_DerivedTwice ==
    /\ Len(msgs) = 3
    /\ lastCall.op \in {"FillVariables", "SetSessionIDAndSystemBytes", "SetWaitBit"}
    /\ lastCall.rcv = 2
    /\ lastCall.ret = 3
    /\ MsgObservers(1) # MsgObservers(2)
    /\ MsgObservers(2) # MsgObservers(3)

\* the step is a SetWaitBit call that returned
SetWaitBitReturned ==
    /\ lastCall'.op = "SetWaitBit"
    /\ ~lastCall'.panicked

\* C19: a SetWaitBit call on a message whose wait bit is true or false
\* returns its receiver, makes no object and changes none, so the returned
\* message has the wait bit of the receiver however often it is called and
\* with either argument; a call that returns another message had a receiver
\* with an optional wait bit, and no call changes the wait bit of an object.
C19_PinnedWaitBitStays ==
    [][/\ \A i \in DOMAIN msgs :
             i \in DOMAIN msgs' /\ msgs'[i].waitBit = msgs[i].waitBit
       /\ SetWaitBitReturned =>
             LET rcv == lastCall'.rcv
                 ret == lastCall'.ret
             IN /\ msgs[rcv].waitBit # 2 =>
                      /\ ret = rcv
                      /\ msgs' = msgs
                      /\ WaitBit(Deref(msgs'[ret])) = WaitBit(Deref(msgs[rcv]))
                /\ ret # rcv =>
                      /\ msgs[rcv].waitBit = 2
                      /\ msgs'[ret].waitBit \in {0, 1}
                      /\ msgs'[ret] = [msgs[rcv] EXCEPT !.waitBit = msgs'[ret].waitBit]
      ]_vars

\* a SetWaitBit call on a message that an earlier SetWaitBit made of a message
\* with an optional wait bit: it returned its receiver
C19_SecondCallNoOp ==
    /\ lastCall.op = "SetWaitBit"
    /\ ~lastCall.panicked
    /\ lastCall.ret = lastCall.rcv
    /\ msgs[lastCall.rcv].waitBit \in {0, 1}
    /\ \E j \in DOMAIN msgs :
          /\ j < lastCall.rcv
          /\ msgs[j].waitBit = 2
          /\ msgs[lastCall.rcv] = [msgs[j] EXCEPT !.waitBit = msgs[lastCall.rcv].waitBit]
----------------------------------------------------------------------------
(* The client scenario: the heap of the message scenario and a client that *)
(* keeps the byte slices it passed to a constructor or a setter and the    *)
(* ones an observer returned, and writes into them.                        *)

\* the most byte slices of the scenario
MaxSlices == 4

\* the system bytes the client passes
ClientBytes == <<1, 2, 3, 4>>

\* the 1-based positions the client writes the byte 255 at
WritePositions == {4}

Hold(ref, from) == [ref |-> ref, from |-> from]

\* the frame of S1F1 W with the item A "ab", session 7, system bytes 1 2 3 4
ClientWire ==
    MessageToBytes(NewHSMSDataMessage(<<>>, 1, 1, 1, DirBoth, NewASCIINode(<<97, 98>>),
                                      7, ClientBytes))

\* NewDataMessage: a new object with a slice of its own, of which the
\* client holds nothing
ClientNewDataMessage ==
    /\ msgs = <<>>
    /\ slices = <<>>
    /\ \E waitBit \in {1, 2} :
         \E dataItem \in {NewIntNode(1, <<GoStr(VarA), GoInt(3)>>)} :
         \E m \in {NewDataMessage(<<>>, 1, 1, waitBit, DirHE, dataItem)} :
            IF IsPanic(m)
            THEN /\ lastCall' = Called("NewDataMessage", 0, 0)
                 /\ UNCHANGED <<slices, items, msgs>>
            ELSE /\ slices' = <<m.systemBytes>>
                 /\ items' = <<dataItem>>
                 /\ msgs' = <<Object(m, 1, 1)>>
                 /\ lastCall' = Called("NewDataMessage", 0, 1)
    /\ UNCHANGED held
    /\ Observe
    /\ UNCHANGED notClient

\* buf := []byte{1, 2, 3, 4}; NewHSMSDataMessage(..., buf): the client keeps
\* buf, the message has a copy
ClientNewHSMSDataMessage ==
    /\ msgs = <<>>
    /\ slices = <<>>
    /\ \E waitBit \in {0, 1}, dataItem \in {NewASCIINode(<<97, 98>>)} :
         \E m \in {NewHSMSDataMessage(<<>>, 1, 1, waitBit, DirHE, dataItem, 7,
                                        ClientBytes)} :
            IF IsPanic(m)
            THEN /\ lastCall' = Called("NewHSMSDataMessage", 0, 0)
                 /\ UNCHANGED <<slices, items, msgs, held>>
            ELSE /\ slices' = <<ClientBytes, m.systemBytes>>
                 /\ items' = <<dataItem>>
                 /\ msgs' = <<Object(m, 2, 1)>>
                 /\ lastCall' = Called("NewHSMSDataMessage", 0, 1)
                 /\ held' = {Hold(1, "argument")}
    /\ Observe
    /\ UNCHANGED notClient

\* hsms.Parse(input): the client keeps input; the message has a copy of the
\* system bytes, which the parser passes as a part of input
ClientHsmsParse ==
    /\ msgs = <<>>
    /\ slices = <<>>
    /\ \E input \in {ClientWire} :
         \E r \in {hsmsParse(SliceOf(input))} :
            IF ~r.ok
            THEN /\ lastCall' = Called("hsms.Parse", 0, 0)
                 /\ UNCHANGED <<slices, items, msgs, held>>
            ELSE /\ slices' = <<input, r.msg.systemBytes>>
                 /\ items' = <<r.msg.dataItem>>
                 /\ msgs' = <<Object(r.msg, 2, 1)>>
                 /\ lastCall' = Called("hsms.Parse", 0, 1)
                 /\ held' = {Hold(1, "argument")}
    /\ Observe
    /\ UNCHANGED notClient

\* m.SetSessionIDAndSystemBytes(7, buf) with a slice the client holds: a
\* new object with a copy of the first 4 bytes and the item of the receiver
ClientSetSessionIDAndSystemBytes ==
    /\ Len(msgs) < MaxMsgs
    /\ Len(slices) < MaxSlices
    /\ \E id \in DOMAIN msgs, h \in held :
         \E m \in {SetSessionIDAndSystemBytes(Deref(msgs[id]), 7, slices[h.ref])} :
            IF IsPanic(m)
            THEN /\ lastCall' = Called("SetSessionIDAndSystemBytes", id, 0)
                 /\ UNCHANGED <<slices, msgs>>
            ELSE /\ slices' = Append(slices, m.systemBytes)
                 /\ msgs' = Append(msgs, Object(m, Len(slices) + 1, msgs[id].dataItem))
                 /\ lastCall' = Called("SetSessionIDAndSystemBytes", id, Len(msgs) + 1)
    /\ UNCHANGED <<items, held>>
    /\ Observe
    /\ UNCHANGED notClient

\* buf := m.SystemBytes(): the slice of the message itself
ClientSystemBytes ==
    /\ \E id \in DOMAIN msgs :
         /\ Hold(msgs[id].systemBytes, "SystemBytes") \notin held
         /\ held' = held \cup {Hold(msgs[id].systemBytes, "SystemBytes")}
         /\ lastCall' = Called("SystemBytes", id, id)
    /\ UNCHANGED <<slices, items, msgs, seen>>
    /\ UNCHANGED notClient

\* buf := m.ToBytes(): a new slice
ClientToBytes ==
    /\ Len(slices) < MaxSlices
    /\ \E id \in DOMAIN msgs :
         /\ slices' = Append(slices, MessageToBytes(Deref(msgs[id])))
         /\ held' = held \cup {Hold(Len(slices) + 1, "ToBytes")}
         /\ lastCall' = Called("ToBytes", id, id)
    /\ UNCHANGED <<items, msgs, seen>>
    /\ UNCHANGED notClient

\* buf[i] = 255 on a slice the client holds
ClientWrite ==
    /\ \E h \in held, i \in WritePositions :
         /\ i \in DOMAIN slices[h.ref]
         /\ slices[h.ref][i] # 255
         /\ slices' = [slices EXCEPT ![h.ref][i] = 255]
         /\ lastCall' = Called("write", h.ref, h.ref)
    /\ UNCHANGED <<items, msgs, seen, held>>
    /\ UNCHANGED notClient

InitClient == HsmsIdle /\ HeapIdle /\ SmlIdle /\ FillIdle /\ CallIdle /\ LexIdle
    /\ ClientIdle

NextClient ==
    \/ ClientNewHSMSDataMessage
    \/ ClientHsmsParse
    \/ ClientNewDataMessage
    \/ CallSetWaitBit
    \/ CallFillVariables
    \/ ClientSetSessionIDAndSystemBytes
    \/ ClientSystemBytes
    \/ ClientToBytes
    \/ ClientWrite

SpecClient == InitClient /\ [][NextClient]_vars
----------------------------------------------------------------------------
(* C29: the byte slices of a message and the ones of its client            *)

\* the messages whose system bytes are in the storage of slice ref
SharedBy(ref) == {id \in DOMAIN msgs : msgs[id].systemBytes = ref}

\* C29: no byte slice passed to a message constructor or setter and no byte
\* slice returned by a message observer shares storage with the state of
\* any message, so whatever the client writes into such a slice, every
\* observer of every message returns what it returned before.
C29_NoSliceShared ==
    /\ \A h \in held : SharedBy(h.ref) = {}
    /\ \A id \in DOMAIN msgs : MsgObservers(id) = seen.ms[id]

\* the client wrote into the slice SystemBytes() returned: the message and
\* the one derived from it by FillVariables or SetWaitBit return other
\* system bytes than before, and one of them other bytes from ToBytes()
C29_WriteSeenInDerived ==
    /\ lastCall.op = "write"
    /\ Hold(lastCall.rcv, "SystemBytes") \in held
    /\ \E a, b \in SharedBy(lastCall.rcv) :
         /\ a # b
         /\ MsgObservers(a).SystemBytes # seen.ms[a].SystemBytes
         /\ MsgObservers(b).SystemBytes # seen.ms[b].SystemBytes
         /\ seen.ms[b].ToBytes # <<>>
         /\ MsgObservers(b).ToBytes # seen.ms[b].ToBytes

\* what holds: the slices passed to NewHSMSDataMessage, hsms.Parse and
\* SetSessionIDAndSystemBytes and the ones ToBytes() returned share no
\* storage with a message, and every message whose system bytes the
\* client did not get from SystemBytes() returns what it returned before
C29_OnlySystemBytesShared ==
    /\ \A h \in held : h.from # "SystemBytes" => SharedBy(h.ref) = {}
    /\ \A id \in DOMAIN msgs :
         Hold(msgs[id].systemBytes, "SystemBytes") \notin held
            => MsgObservers(id) = seen.ms[id]

\* the client wrote into the slice it had passed to a constructor or to
\* the parser and into a slice ToBytes() returned, with a message made
\* from the first
C29_WroteIntoArgumentAndResult ==
    /\ lastCall.op = "write"
    /\ \E h \in held : h.from = "argument" /\ slices[h.ref][4] = 255
    /\ \E h \in held : h.from = "ToBytes" /\ Len(slices[h.ref]) > 0
                          /\ slices[h.ref][4] = 255
    /\ \A id \in DOMAIN msgs : MsgObservers(id) = seen.ms[id]
----------------------------------------------------------------------------
(* The fill scenario: one call of FillVariables with a one-name map on an  *)
(* item, or on a message that holds the item.                              *)

\* the most repetitions an ellipsis is filled with
MaxRepeat == 2

VarX == <<120>>
VarY == <<121>>
Tag(name, i) == name \o <<91>> \o Itoa(i) \o <<93>>

\* the items of the scenario
FillItems ==
    {NewListNode(<<GoItem(NewASCIINodeVariable(VarA, 0, 0 - 1)), GoStr(VarB),
                   GoStr(Dots3)>>),
     NewListNode(<<GoStr(VarA), GoStr(Dots3), GoStr(Tag(VarA, 0))>>),
     NewListNode(<<GoStr(VarA), GoStr(Tag(Dots3, 0)),
                   GoItem(NewListNode(<<GoStr(VarB), GoStr(Tag(Dots3, 1))>>))>>),
     NewListNode(<<GoItem(NewListNode(<<GoStr(VarA), GoStr(Tag(Dots3, 0))>>)),
                   GoStr(Tag(Dots3, 1))>>),
     NewListNode(<<GoItem(NewIntNode(1, <<GoStr(VarX), GoInt(3)>>)),
                   GoItem(NewBinaryNode(<<GoStr(VarY)>>)),
                   GoStr(Dots3), GoStr(VarB)>>),
     NewListNode(<<GoItem(NewUintNode(2, <<GoInt(1), GoInt(2)>>)),
                   GoItem(NewASCIINode(<<97, 98>>)), GoStr(Dots3)>>),
     NewListNode(<<GoStr(VarA), GoItem(NewBooleanNode(<<GoBool(TRUE)>>)),
                   GoStr(VarB)>>),
     NewIntNode(1, <<GoStr(VarX), GoInt(3), GoStr(VarY)>>),
     NewUintNode(2, <<GoInt(7), GoStr(VarX)>>),
     NewFloatNode(4, <<GoStr(VarX), GoStr(VarY)>>),
     NewBinaryNode(<<GoInt(1), GoStr(VarX)>>),
     NewBooleanNode(<<GoStr(VarX), GoBool(FALSE), GoStr(VarY)>>),
     NewASCIINodeVariable(VarA, 1, 2)}

\* the values given for an ellipsis: repetition counts, a negative count and
\* a value that is not an int
EllipsisFills == {GoInt(n) : n \in (0 - 1) .. MaxRepeat} \cup {GoStr(VarX)}

\* the values given for an ordinary variable
VariableFills ==
    {GoInt(5), GoInt(300), GoBool(TRUE), GoStr(<<119>>), GoStr(<<119, 119, 119>>),
     GoItem(NewASCIINode(<<97, 98>>)),
     GoItem(NewUintNode(1, <<GoStr(<<107>>)>>))}

\* the map {v: x}
OneFill(v, x) == [n \in {v} |-> x]

\* the one-name maps for an item
FillMaps(item) ==
    {OneFill(v, x) : v \in {n \in Range(Variables(item)) : isEllipsis(n)},
                     x \in EllipsisFills}
    \cup {OneFill(v, x) : v \in {n \in Range(Variables(item)) : ~isEllipsis(n)},
                          x \in VariableFills}

\* ItemNode.FillVariables
CallFill ==
    /\ fillPc = "idle"
    /\ \E item \in FillItems :
         \E values \in FillMaps(item) :
            /\ fillTarget' = item
            /\ fillValues' = values
            /\ fillResult' = FillVariables(item, values)
    /\ fillPc' = "filled"
    /\ UNCHANGED notFill

\* DataMessage.FillVariables on a message that holds the item
CallFillMessage ==
    /\ fillPc = "idle"
    /\ \E item \in FillItems :
         \E values \in FillMaps(item), m \in {NewDataMessage(<<>>, 1, 1, 0, DirHE, item)} :
            /\ fillTarget' = m
            /\ fillValues' = values
            /\ fillResult' = MessageFillVariables(m, values)
    /\ fillPc' = "filled"
    /\ UNCHANGED notFill

\* the client drops the result
FillReset ==
    /\ fillPc = "filled"
    /\ fillPc' = "idle"
    /\ fillTarget' = NewEmptyItemNode
    /\ fillValues' = <<>>
    /\ fillResult' = NewEmptyItemNode
    /\ UNCHANGED notFill

InitFill == HsmsIdle /\ HeapIdle /\ SmlIdle /\ FillIdle /\ CallIdle /\ LexIdle
    /\ ClientIdle

NextFill == CallFill \/ CallFillMessage \/ FillReset

SpecFill == InitFill /\ [][NextFill]_vars
----------------------------------------------------------------------------
(* Claims about FillVariables, checked under SpecFill                      *)

\* the item the call works on and the item it produced
FillSubject ==
    IF fillTarget.typ = "data message" THEN fillTarget.dataItem ELSE fillTarget
FillOutcome ==
    IF IsPanic(fillResult) THEN Panic
    ELSE IF fillResult.typ = "data message" THEN fillResult.dataItem
    ELSE fillResult

\* Variables() of an item or of a message
VariablesOf(m) ==
    IF m.typ = "data message" THEN MessageVariables(m) ELSE Variables(m)

\* the name v and the value x of the map {v: x} of the call
FilledName == CHOOSE v \in DOMAIN fillValues : TRUE
FilledValue == fillValues[FilledName]

\* the call returned
Accepted == fillPc = "filled" /\ ~IsPanic(fillResult)

Without(names, v) == SelectSeq(names, LAMBDA n : n # v)
Ordinary(names) == SelectSeq(names, LAMBDA n : ~isEllipsis(n))

RECURSIVE ASCIIVariables(_)
\* the names of the ASCII variable nodes of an item
ASCIIVariables(item) ==
    CASE item.typ = "ascii" -> IF item.isValue THEN {} ELSE {item.variable.name}
      [] item.typ = "list" ->
            UNION {ASCIIVariables(item.values[i]) : i \in DOMAIN item.values}
      [] OTHER -> {}

\* the value x given for v brings no variable name with it: it is not a
\* string read as a new name and not an item that has variables
CarriesNoName(item, v, x) ==
    CASE x.k = "string" -> v \in ASCIIVariables(item)
      [] x.k = "item" -> Variables(x.v) = <<>>
      [] OTHER -> TRUE

C8_StringRenames ==
    /\ Accepted
    /\ FillSubject.typ = "int"
    /\ FilledValue.k = "string"
    /\ FilledValue.v \in Range(VariablesOf(fillResult))

\* the variables of slot i (1-based) of a list, as Variables() lists them
SlotVariables(list, i) ==
    LET posVar == variablesSwapKeyValue(list.variables)
    IN IF list.values[i].typ = "empty"
       THEN IF (i - 1) \in DOMAIN posVar THEN <<posVar[i - 1]>> ELSE <<>>
       ELSE Variables(list.values[i])

\* the ordinary variables of slots from..to of a list, each with the suffix
\* [i] when i >= 0
SlotsOrdinary(list, from, to, i) ==
    LET names == Ordinary(Concat([k \in 1 .. (to - from + 1) |->
                                    SlotVariables(list, from + k - 1)]))
    IN [k \in DOMAIN names |-> IF i >= 0 THEN Tag(names[k], i) ELSE names[k]]

\* the call filled the ellipsis of the list itself with n >= 1
EllipsisRepeated ==
    /\ fillPc = "filled"
    /\ FillSubject.typ = "list"
    /\ isEllipsis(FilledName)
    /\ FilledName \in DOMAIN FillSubject.variables
    /\ FilledValue.k = "int"
    /\ FilledValue.v >= 1

\* C9 as stated: filling the ellipsis at position p of a list with n >= 1
\* gives a list of size p*(n+1) + (old size - p - 1) whose ordinary variables
\* are those of the p slots before the ellipsis with the suffix [i], for
\* i = 0..n, followed by those of the slots after the ellipsis.
C9_EllipsisRepeatsSlots ==
    EllipsisRepeated =>
        /\ ~IsPanic(fillResult)
        /\ LET p == FillSubject.variables[FilledName]
               n == FilledValue.v
               old == Size(FillSubject)
           IN /\ Size(FillOutcome) = p * (n + 1) + (old - p - 1)
              /\ Ordinary(Variables(FillOutcome)) =
                    Concat([k \in 1 .. (n + 1) |->
                              SlotsOrdinary(FillSubject, 1, p, k - 1)])
                    \o SlotsOrdinary(FillSubject, p + 2, old, 0 - 1)

\* C9, the calls that return: the same statement for every call that does
\* not panic.
C9_RepeatsSlotsWhenReturned ==
    (EllipsisRepeated /\ ~IsPanic(fillResult)) =>
        LET p == FillSubject.variables[FilledName]
            n == FilledValue.v
            old == Size(FillSubject)
        IN /\ Size(FillOutcome) = p * (n + 1) + (old - p - 1)
           /\ Ordinary(Variables(FillOutcome)) =
                 Concat([k \in 1 .. (n + 1) |->
                           SlotsOrdinary(FillSubject, 1, p, k - 1)])
                 \o SlotsOrdinary(FillSubject, p + 2, old, 0 - 1)

\* the list <L a ... a[0]> filled with {"...": 1}: the renamed a[0] meets the
\* a[0] after the ellipsis and the call panics
C9_RenamedNameCollides ==
    /\ EllipsisRepeated
    /\ FilledValue.v = 1
    /\ Variables(FillSubject) = <<VarA, Dots3, Tag(VarA, 0)>>
    /\ IsPanic(fillResult)

\* the example of the specification: <L <A var> varNode ...> filled with
\* {"...": 1} has size 4
C9_ExampleExpanded ==
    /\ EllipsisRepeated
    /\ FilledValue.v = 1
    /\ ~IsPanic(fillResult)
    /\ Size(FillOutcome) = 4
    /\ Variables(FillOutcome) =
          <<Tag(VarA, 0), Tag(VarB, 0), Tag(VarA, 1), Tag(VarB, 1)>>

RECURSIVE RemoveSlot(_, _)
\* the item without the slot of the variable e, every other slot as it is
RemoveSlot(item, e) ==
    IF item.typ # "list" THEN item
    ELSE LET posVar == variablesSwapKeyValue(item.variables)
             kept == SelectSeq([i \in DOMAIN item.values |-> i],
                               LAMBDA i : ~((i - 1) \in DOMAIN posVar
                                            /\ posVar[i - 1] = e))
         IN NewListNode([k \in DOMAIN kept |->
                LET i == kept[k]
                IN IF (i - 1) \in DOMAIN posVar THEN GoStr(posVar[i - 1])
                   ELSE GoItem(RemoveSlot(item.values[i], e))])

RECURSIVE Subtrees(_)
\* the item and the items below it, depth first
Subtrees(item) ==
    <<item>> \o (IF item.typ = "list"
                 THEN Concat([i \in DOMAIN item.values |-> Subtrees(item.values[i])])
                 ELSE <<>>)

\* what Size, Variables, ToBytes and String return for every subtree
Observed(item) ==
    LET subs == Subtrees(item)
    IN [i \in DOMAIN subs |->
          [Size |-> Size(subs[i]), Variables |-> Variables(subs[i]),
           ToBytes |-> ToBytes(subs[i]), String |-> String(subs[i])]]

\* the same, of the variables only the ordinary ones
ObservedOrdinary(item) ==
    LET obs == Observed(item)
    IN [i \in DOMAIN obs |-> [obs[i] EXCEPT !.Variables = Ordinary(@)]]

\* the names with the ellipses named by the order they appear in: "..." when
\* there is one, "...[0]", "...[1]", ... when there are more
Renumbered(names) ==
    LET count == Len(SelectSeq(names, isEllipsis))
    IN [i \in DOMAIN names |->
          IF ~isEllipsis(names[i]) THEN names[i]
          ELSE IF count = 1 THEN Dots3
          ELSE Tag(Dots3, Len(SelectSeq(SubSeq(names, 1, i - 1), isEllipsis)))]

\* the call filled an ellipsis with 0
EllipsisZero ==
    /\ fillPc = "filled"
    /\ isEllipsis(FilledName)
    /\ FilledValue = GoInt(0)

\* C10 as stated: filling an ellipsis with 0 gives the item without the slot
\* of the ellipsis; Size, Variables, ToBytes and String of the item and of
\* every subtree are those of the item before with that slot taken out.
C10_ZeroRemovesOnlyTheSlot ==
    EllipsisZero =>
        /\ ~IsPanic(fillResult)
        /\ Observed(FillOutcome) = Observed(RemoveSlot(FillSubject, FilledName))

\* C10 amended: filling an ellipsis with 0 gives the item without the slot of
\* the ellipsis; Size, ToBytes, String and the ordinary variables of the item
\* and of every subtree are those of the item before with that slot taken
\* out, and the ellipses that remain are named again by the order they
\* appear in.
C10_ZeroRemovesSlotRenumbers ==
    EllipsisZero =>
        /\ ~IsPanic(fillResult)
        /\ ObservedOrdinary(FillOutcome) =
              ObservedOrdinary(RemoveSlot(FillSubject, FilledName))
        /\ Variables(FillOutcome) =
              Renumbered(Variables(RemoveSlot(FillSubject, FilledName)))

\* an ellipsis was filled with 0 and another ellipsis remains under a new name
C10_RemainingRenamed ==
    /\ EllipsisZero
    /\ ~IsPanic(fillResult)
    /\ Dots3 \in Range(Variables(FillOutcome))
    /\ Dots3 \notin Range(Variables(FillSubject))

\* an ellipsis was filled with 0 and the item can be encoded
C10_ZeroMakesEncodable ==
    /\ EllipsisZero
    /\ ~IsPanic(fillResult)
    /\ ToBytes(FillOutcome) # <<>>

\* the names of the ellipses that Variables() reports, in its order
RemainingEllipses(item) == SelectSeq(Variables(item), isEllipsis)

\* "..." for one name, "...[0]", "...[1]", ... for more
NamedInOrder(names) ==
    IF Len(names) = 1 THEN names = <<Dots3>>
    ELSE \A i \in DOMAIN names : names[i] = Tag(Dots3, i - 1)

\* the call returned an item
FillReturned == fillPc = "filled" /\ ~IsPanic(fillResult)

\* the call filled an ellipsis with a count and returned an item
EllipsisFilled ==
    /\ FillReturned
    /\ isEllipsis(FilledName)
    /\ FilledValue.k = "int"

\* C20: after a fill, two or more ellipses that remain in the item are named
\* ...[0], ...[1], ... in the order Variables() reports them, and a single
\* one that remains is named "...".
C20_RemainingNamedInOrder ==
    FillReturned => NamedInOrder(RemainingEllipses(FillOutcome))

\* the same for the fills of an ellipsis only
C20_RemainingNamedInOrderAfterEllipsisFill ==
    EllipsisFilled => NamedInOrder(RemainingEllipses(FillOutcome))

\* what holds of the fills of an ellipsis: the ellipses that remain are
\* named in order when ellipsisAnalysis counts more than one remaining
\* ellipsis, which it does whenever two or more remain, and "..." otherwise
C20_NamedByTheCountOfTheAnalysis ==
    EllipsisFilled =>
        LET names == RemainingEllipses(FillOutcome)
            an == ellipsisAnalysis(FillSubject, fillValues)
        IN /\ ~IsPanic(an)
           /\ Len(names) <= an.remaining
           /\ IF an.remaining > 1
              THEN \A i \in DOMAIN names : names[i] = Tag(Dots3, i - 1)
              ELSE \A i \in DOMAIN names : names[i] = Dots3

\* an ellipsis was filled with a count of 1 or more, one ellipsis remains and
\* its name is "...[0]"
C20_SingleRemainingNumbered ==
    /\ EllipsisFilled
    /\ FilledValue.v >= 1
    /\ RemainingEllipses(FillOutcome) = <<Tag(Dots3, 0)>>

\* an ellipsis was filled and two ellipses remain, named in order
C20_TwoRemainingNumbered ==
    /\ EllipsisFilled
    /\ RemainingEllipses(FillOutcome) = <<Tag(Dots3, 0), Tag(Dots3, 1)>>
----------------------------------------------------------------------------
(* The lexer scenario: a client makes a lexer and calls nextToken again    *)
(* and again.  A step is one pass of the select statement of nextToken:    *)
(* a token is received, the closed channel is met, or the state function   *)
(* runs once.                                                              *)

\* the capacity of the token channel
ChannelCap == 2

LexInputs ==
    {<<>>,
        \* the empty input
     <<83, 49, 70, 49, 32, 87, 32, 72, 45, 62, 69, 32, 110, 10, 60, 76, 10, 32, 60, 65, 32, 34, 97, 98, 34, 62, 10, 32, 60, 85, 49, 32, 49, 32, 50, 62, 10, 62, 10, 46>>,
        \* S1F1 W H->E n\n<L\n <A "ab">\n <U1 1 2>\n>\n.
     <<47, 47, 32, 99, 10, 83, 49, 70, 49, 32, 47, 47, 32, 100, 10, 60, 65, 32, 47, 47, 32, 101, 10, 32, 34, 97, 34, 32, 47, 47, 32, 102, 10, 62, 32, 47, 47, 32, 103, 10, 46, 32, 47, 47, 32, 104, 10, 83, 50, 70, 50, 10, 46>>,
        \* // c\nS1F1 // d\n<A // e\n "a" // f\n> // g\n. // h\nS2F2\n.
     <<83, 49, 70, 49, 32, 47, 47, 32, 110, 111, 32, 110, 101, 119, 108, 105, 110, 101>>,
        \* S1F1 // no newline
     <<83, 49, 70, 49, 32, 60, 65, 32, 120, 32, 47, 47, 32, 110, 111, 32, 110, 101, 119, 108, 105, 110, 101>>,
        \* S1F1 <A x // no newline
     <<83, 49, 70, 49, 32, 60, 65, 32, 64, 32, 34, 108, 97, 116, 101, 34, 62, 32, 46, 32, 83, 50, 70, 50>>,
        \* S1F1 <A @ "late"> . S2F2
     <<83, 49, 70, 49, 32, 60, 65, 32, 34, 111, 112, 101, 110, 10, 62, 32, 46>>,
        \* S1F1 <A "open\n> .
     <<83, 49, 70, 49, 32, 60, 85, 49, 91, 50, 46, 46, 120, 93, 32, 49, 62, 32, 46>>,
        \* S1F1 <U1[2..x] 1> .
     <<83, 49, 70, 49, 32, 60, 85, 49, 32, 48, 120, 49, 103, 32, 50, 62, 32, 46>>,
        \* S1F1 <U1 0x1g 2> .
     <<83, 49, 70, 49, 32, 46, 32, 46, 32, 60, 76, 32, 60, 76, 62, 32, 46, 46, 46, 32, 120, 91, 49, 93, 32, 84, 62, 32, 46, 32, 110, 97, 109, 101, 32, 60, 66, 32, 48, 98, 49, 62>>,
        \* S1F1 . . <L <L> ... x[1] T> . name <B 0b1>
     <<60, 32, 60, 32, 46, 32, 46, 32, 60>>,
        \* < < . . <
     <<83, 49, 70, 49, 32, 60, 70, 52, 91, 49, 93, 32, 45, 49, 46, 53, 101, 51, 32, 46, 53, 62, 32, 46, 46, 46, 46>>,
        \* S1F1 <F4[1] -1.5e3 .5> ....
     <<97, 47, 47, 98, 10, 60, 120, 47, 47, 121, 10, 46, 47, 47, 122>>,
        \* a//b\n<x//y\n.//z
     <<83, 49, 70, 49, 32, 60, 65, 32, 34, 47, 47, 34, 32, 47, 47, 10, 62, 46>>}
        \* S1F1 <A "//" //\n>.

\* lex(input)
LexStart ==
    /\ lexPc = "idle"
    /\ \E input \in LexInputs : lexer' = lex(input)
    /\ lexPc' = "ready"
    /\ UNCHANGED lexTok
    /\ UNCHANGED notLex

\* the client calls nextToken
LexCall ==
    /\ lexPc = "ready"
    /\ lexPc' = "select"
    /\ UNCHANGED <<lexer, lexTok>>
    /\ UNCHANGED notLex

\* case tok, ok := <-l.tokens with a token in the channel: return tok
LexReceive ==
    /\ lexPc = "select"
    /\ lexer.tokens # <<>>
    /\ lexTok' = Head(lexer.tokens)
    /\ lexer' = [lexer EXCEPT !.tokens = Tail(@)]
    /\ lexPc' = "ready"
    /\ UNCHANGED notLex

\* case tok, ok := <-l.tokens on the closed and empty channel: return an
\* EOF token
LexReceiveClosed ==
    /\ lexPc = "select"
    /\ lexer.tokens = <<>>
    /\ lexer.closed
    /\ lexTok' = Token("EOF", <<>>, 0, 0)
    /\ lexPc' = "ready"
    /\ UNCHANGED lexer
    /\ UNCHANGED notLex

\* default: l.lastState, l.state = l.state, l.state(l).  A nil state
\* function panics; a send on the full channel blocks the only goroutine.
LexRun ==
    /\ lexPc = "select"
    /\ lexer.tokens = <<>>
    /\ ~lexer.closed
    /\ IF lexer.state = "nil"
       THEN lexPc' = "panicked" /\ UNCHANGED lexer
       ELSE \E r \in {RunState(lexer)} :
               IF Len(r.lx.tokens) > ChannelCap
               THEN lexPc' = "blocked" /\ UNCHANGED lexer
               ELSE /\ lexer' = [r.lx EXCEPT !.lastState = lexer.state,
                                             !.state = r.fn]
                    /\ lexPc' = "select"
    /\ UNCHANGED lexTok
    /\ UNCHANGED notLex

\* the client drops the lexer
LexReset ==
    /\ lexPc = "ready"
    /\ lexer.closed /\ lexer.tokens = <<>>
    /\ lexTok.typ = "EOF" /\ lexTok.val = <<>>
    /\ lexPc' = "idle"
    /\ lexer' = lex(<<>>)
    /\ lexTok' = NoToken
    /\ UNCHANGED notLex

InitLex == HsmsIdle /\ HeapIdle /\ SmlIdle /\ FillIdle /\ CallIdle /\ LexIdle
    /\ ClientIdle

NextLex == LexStart \/ LexCall \/ LexReceive \/ LexReceiveClosed \/ LexRun \/ LexReset

SpecLex == InitLex /\ [][NextLex]_vars
----------------------------------------------------------------------------
(* Claims about the lexer                                                  *)

\* the state functions that scan inside a message text
TextStates == {"lexMessageText", "lexNumber", "lexDataItemSize", "lexQuotedString"}

\* the lexer scans a header, also when a comment of the header is to be scanned
InHeader(l) ==
    \/ l.state = "lexMessageHeader"
    \/ l.state = "lexComment" /\ l.lastState = "lexMessageHeader"

\* the lexer scans a text, also when a comment of the text is to be scanned
InText(l) ==
    \/ l.state \in TextStates
    \/ l.state = "lexComment" /\ l.lastState = "lexMessageText"

\* the lexer has met the end of the input or an error
Ending(l) == l.state \in {"lexEOF", "nil"}

\* the step is one run of the state function
StateFunctionRan == lexPc = "select" /\ lexer' # lexer /\ lexer.tokens = <<>> /\ ~lexer.closed

\* the step sent a token of the type
Sent(typ) == lexer'.tokens # <<>> /\ lexer'.tokens[Len(lexer'.tokens)].typ = typ

\* the lexer scanning is in exactly one of the two primary states until it ends
LexerInPrimaryState ==
    lexPc # "idle" =>
        /\ lexPc \in {"ready", "select"}
        /\ (InHeader(lexer) /\ ~InText(lexer) /\ ~Ending(lexer))
           \/ (InText(lexer) /\ ~InHeader(lexer) /\ ~Ending(lexer))
           \/ (Ending(lexer) /\ ~InHeader(lexer) /\ ~InText(lexer))

\* C22: the lexer starts in the header state and until it ends it is in the
\* header or in the text state; a run of the state function takes it from
\* header to text exactly when it sends a LeftAngleBracket token in the header
\* state and from text to header exactly when it sends a MessageEnd token in
\* the text state, and the run that scans a comment ending at a newline
\* goes back to the state that ran before the comment.
C22_TwoPrimaryStates ==
    [][/\ LexerInPrimaryState'
       /\ (lexPc = "idle" /\ lexPc' # "idle") => lexer'.state = "lexMessageHeader"
       /\ StateFunctionRan =>
             /\ (InHeader(lexer) /\ InText(lexer')) <=> (InHeader(lexer) /\ Sent("LeftAngleBracket"))
             /\ (InText(lexer) /\ InHeader(lexer')) <=> (InText(lexer) /\ Sent("MessageEnd"))
             /\ lexer'.state = "lexComment" =>
                   /\ lexer.state \in {"lexMessageHeader", "lexMessageText"}
                   /\ lexer'.lastState = lexer.state
             /\ (lexer.state = "lexComment" /\ Sent("Comment")
                    /\ lexer'.pos < Len(lexer.input)) =>
                   /\ lexer'.state = lexer.lastState
                   /\ InHeader(lexer') = InHeader(lexer)
                   /\ InText(lexer') = InText(lexer)
      ]_vars

\* the lexer is in the text state and is about to go on after a comment of
\* the text
C22_BackInTextAfterComment ==
    /\ lexPc = "select"
    /\ lexer.state = "lexMessageText"
    /\ lexer.lastState = "lexComment"
    /\ lexer.tokens # <<>>
    /\ lexer.tokens[1].typ = "Comment"

\* the same in the header state
C22_BackInHeaderAfterComment ==
    /\ lexPc = "select"
    /\ lexer.state = "lexMessageHeader"
    /\ lexer.lastState = "lexComment"
    /\ lexer.tokens # <<>>
    /\ lexer.tokens[1].typ = "Comment"

\* the token ends the scan
IsFinal(t) == t.typ \in {"Error", "EOF"}

\* the tokens the successive nextToken calls return until the channel is
\* closed and empty hold one Error or EOF token, the last one
OneFinalToken(input) ==
    LET ts == TokenStream(lex(input))
    IN /\ ts # <<>>
       /\ IsFinal(ts[Len(ts)])
       /\ \A k \in 1 .. Len(ts) - 1 : ~IsFinal(ts[k])

\* C23: the run of the state function that sends an Error or an EOF token
\* closes the channel and leaves no state function; from then on nothing is
\* scanned and nothing is sent, and once that token has been returned every
\* nextToken call returns an EOF token.
C23_NothingAfterFinalToken ==
    [][/\ (StateFunctionRan /\ (Sent("Error") \/ Sent("EOF"))) =>
             /\ lexer'.closed
             /\ lexer'.state = "nil"
             /\ Len(lexer'.tokens) = 1
       /\ (StateFunctionRan /\ lexer'.closed) => IsFinal(lexer'.tokens[1])
       /\ (lexer.closed /\ lexPc # "idle" /\ lexPc' # "idle") =>
             /\ lexer'.closed
             /\ lexer'.input = lexer.input
             /\ lexer'.pos = lexer.pos
             /\ lexer'.start = lexer.start
             /\ lexer'.state = "nil"
             /\ IF lexer.tokens = <<>> THEN lexer'.tokens = <<>>
                ELSE lexer'.tokens \in {lexer.tokens, Tail(lexer.tokens)}
             /\ (lexer.tokens = <<>> /\ lexPc = "select") =>
                   lexPc' = "ready" /\ lexTok' = Token("EOF", <<>>, 0, 0)
       /\ lexPc # "idle" => OneFinalToken(lexer.input)
      ]_vars

\* nextToken returned the EOF token of the closed channel although input is
\* left after the position of the error
C23_EOFAfterError ==
    /\ lexPc = "ready"
    /\ lexer.closed
    /\ lexer.tokens = <<>>
    /\ lexTok = Token("EOF", <<>>, 0, 0)
    /\ lexer.pos + 5 < Len(lexer.input)

\* nextToken returned the EOF token of the closed channel after the EOF
\* token of the end of the input
C23_EOFAfterEOF ==
    /\ lexPc = "ready"
    /\ lexer.closed
    /\ lexer.tokens = <<>>
    /\ lexTok = Token("EOF", <<>>, 0, 0)
    /\ lexer.pos = Len(lexer.input)
    /\ lexer.input # <<>>

\* the step changed what only a state function changes
LexerMoved ==
    /\ lexPc # "idle" /\ lexPc' # "idle"
    /\ \/ lexer'.state # lexer.state
       \/ lexer'.lastState # lexer.lastState
       \/ lexer'.pos # lexer.pos
       \/ lexer'.start # lexer.start
       \/ Len(lexer'.tokens) > Len(lexer.tokens)

\* C30: nextToken never blocks on a send and never calls a nil state
\* function: a state function runs only when the channel is empty and open,
\* one run sends at most one token, at most one token is ever in the
\* channel of capacity 2, and the state function is nil only when the
\* channel is closed.
C30_NeverBlocksNeverNil ==
    [][/\ lexPc' \notin {"blocked", "panicked"}
       /\ Len(lexer'.tokens) <= 1
       /\ Len(lexer'.tokens) < ChannelCap
       /\ lexer'.state = "nil" <=> lexer'.closed
       /\ LexerMoved =>
             /\ lexer.tokens = <<>>
             /\ ~lexer.closed
             /\ lexer.state # "nil"
             /\ Len(lexer'.tokens) <= 1
      ]_vars

\* nextToken is at its select with one token in the channel after a run of
\* the state function
C30_OnePending ==
    /\ lexPc = "select"
    /\ Len(lexer.tokens) = 1
    /\ ~lexer.closed

\* nextToken is at its select with the channel closed and empty and no
\* state function left
C30_ClosedAtSelect ==
    /\ lexPc = "select"
    /\ lexer.tokens = <<>>
    /\ lexer.closed
    /\ lexer.state = "nil"
----------------------------------------------------------------------------
(* The call scenario: one call of a function of the library on arguments   *)
(* drawn from bounded sets.                                                *)

\* the integers given to the numeric constructors: the neighbours of the
\* bounds of the 1-byte and 2-byte variants and the extremes of the model
NumInts ==
    {0 - 2147483647, 0 - 32769, 0 - 32768, 0 - 129, 0 - 128, 0 - 1, 0, 1,
     127, 128, 255, 256, 32767, 32768, 65535, 65536, 2147483647}

\* the floats given to the numeric constructors
NumFloats == {0 - 3, 0, 1, 300, FloatHuge, 0 - FloatHuge, FloatInf, 0 - FloatInf, FloatNaN}

\* the values a Go variable of the kind can hold
KindHolds(kind, v) ==
    CASE kind = "int8" -> 0 - 128 <= v /\ v <= 127
      [] kind = "int16" -> 0 - 32768 <= v /\ v <= 32767
      [] kind \in {"int32", "int64", "int"} -> TRUE
      [] kind = "uint8" -> 0 <= v /\ v <= 255
      [] kind = "uint16" -> 0 <= v /\ v <= 65535
      [] kind \in {"uint32", "uint64", "uint"} -> 0 <= v
      [] kind = "float32" -> v \notin {FloatHuge, 0 - FloatHuge}
      [] kind = "float64" -> TRUE

\* the arguments given to the numeric constructors
NumArgs ==
    {a \in {GoV(kind, v) : kind \in IntKinds, v \in NumInts}
            \cup {GoV(kind, v) : kind \in FloatKinds, v \in NumFloats} :
        KindHolds(a.k, a.v)}

ByteSizes == {1, 2, 4, 8}

\* ast.NewIntNode(byteSize, value)
CallNewIntNode ==
    /\ callPc = "idle"
    /\ \E byteSize \in ByteSizes, value \in NumArgs :
         /\ called' = [op |-> "NewIntNode", byteSize |-> byteSize, value |-> value]
         /\ callRet' = NewIntNode(byteSize, <<value>>)
    /\ callPc' = "returned"
    /\ UNCHANGED notCall

\* ast.NewUintNode(byteSize, value)
CallNewUintNode ==
    /\ callPc = "idle"
    /\ \E byteSize \in ByteSizes, value \in NumArgs :
         /\ called' = [op |-> "NewUintNode", byteSize |-> byteSize, value |-> value]
         /\ callRet' = NewUintNode(byteSize, <<value>>)
    /\ callPc' = "returned"
    /\ UNCHANGED notCall

\* ast.NewFloatNode(byteSize, value)
CallNewFloatNode ==
    /\ callPc = "idle"
    /\ \E byteSize \in {4, 8}, value \in NumArgs :
         /\ called' = [op |-> "NewFloatNode", byteSize |-> byteSize, value |-> value]
         /\ callRet' = NewFloatNode(byteSize, <<value>>)
    /\ callPc' = "returned"
    /\ UNCHANGED notCall
----------------------------------------------------------------------------
(* The call scenario: hsms.Parse on byte slices that are not what ToBytes  *)
(* returned                                                                *)

\* the frame of a header and a message text
Frame(header, text) == BigEndian(10 + Len(text), 4) \o header \o text

\* header of the data message S1F1 W, session 1, system bytes 0 0 0 9
DataHeader == <<0, 1, 129, 1, 0, 0, 0, 0, 0, 9>>

\* message texts: well-formed items
GoodTexts ==
    {<<>>,
     <<65, 2, 97, 98>>,                        \* A "ab"
     <<1, 2, 105, 2, 2, 1, 37, 1, 1>>,         \* L[2] of I2 513 and BOOLEAN T
     <<1, 1, 1, 1, 165, 2, 7, 8>>,             \* L[1] of L[1] of U1 7 8
     <<145, 4, 64, 160, 0, 0>>,                \* F4 5
     <<33, 1, 1>>}                             \* B 1

\* further message texts, most of which the decoder has to refuse
BadTexts ==
    {<<145, 4, 127, 128, 0, 0>>,               \* F4 +Inf
     <<145, 4, 255, 128, 0, 0>>,               \* F4 -Inf
     <<145, 4, 127, 192, 0, 0>>,               \* F4 NaN
     <<129, 8, 127, 240, 0, 0, 0, 0, 0, 0>>,   \* F8 +Inf
     <<129, 8, 127, 248, 0, 0, 0, 0, 0, 1>>,   \* F8 NaN
     <<65, 1, 128>>,                           \* A with a byte above 0x7F
     <<65, 3, 97, 255, 98>>,
     <<64, 97>>,                               \* no length bytes
     <<105, 3, 2, 1, 0>>,                      \* I2 of 3 bytes
     <<177, 4, 0, 0, 0, 1>>,                   \* U4 1               
     <<253, 1, 0>>,                            \* format code 63
     <<65, 5, 97, 98>>,                        \* lengths that overrun the input
     <<1, 2, 65, 1, 97>>,
     <<1, 1, 165, 3, 1>>,
     <<105, 4, 0, 1>>,
     <<145, 4, 64, 160>>,
     <<66, 0>>, <<65>>, <<1>>}

\* headers: PType and SType of every kind, and the wait bit with an even
\* function code
WireHeaders ==
    {[DataHeader EXCEPT ![5] = p, ![6] = s] : p \in {0, 1, 255}, s \in (0 .. 10) \cup {128, 255}}
    \cup {[DataHeader EXCEPT ![4] = f] : f \in {0, 2, 254}}
    \cup {[DataHeader EXCEPT ![3] = 1, ![4] = 2]}

\* the frames of the scenario, each the whole of its backing array
Frames ==
    {Frame(DataHeader, t) : t \in GoodTexts \cup BadTexts}
    \cup {Frame(h, t) : h \in WireHeaders, t \in {<<>>, <<65, 2, 97, 98>>}}

\* the frame with another length prefix
WithLength(w, n) == BigEndian(n, 4) \o SubSeq(w, 5, Len(w))

\* the lengths of the slices cut from a frame
Cuts(w) == (0 .. Len(w)) \cap ((0 .. 15) \cup ((Len(w) - 3) .. Len(w)))

\* the slices given to hsms.Parse: the frames themselves, their beginnings
\* with and without the rest of the frame within the capacity, a byte more,
\* and all of these with the length prefix as it is or put right
WireInputs ==
    LET fs == {f \in Frames : Len(f) <= 24} IN
    {SliceOf(f) : f \in Frames}
    \cup {SliceOf(f \o <<0>>) : f \in fs}
    \cup {SliceOf(WithLength(f \o <<0>>, Len(f) - 3)) : f \in fs}
    \cup {SliceOf(WithLength(f, n)) : f \in fs, n \in {0, 9, 10, 11, 16777216}}
    \cup UNION {{SliceOf(SubSeq(f, 1, k)) : k \in Cuts(f)} : f \in fs}
    \cup UNION {{SliceOf(WithLength(SubSeq(f, 1, k), k - 4)) : k \in Cuts(f) \ (0 .. 3)} :
                  f \in fs}
    \cup UNION {{Slice(f, k) : k \in Cuts(f)} : f \in fs}
    \cup UNION {{Slice(WithLength(f, k - 4), k) : k \in Cuts(f) \ (0 .. 3)} : f \in fs}

\* hsms.Parse(input)
CallParse ==
    /\ callPc = "idle"
    /\ \E input \in WireInputs :
         /\ called' = [op |-> "hsms.Parse", input |-> input]
         /\ callRet' = hsmsParse(input)
    /\ callPc' = "returned"
    /\ UNCHANGED notCall
----------------------------------------------------------------------------
(* The call scenario: ControlMessage.Type                                  *)

\* NewHSMSControlMessage(header).Type()
CallType ==
    /\ callPc = "idle"
    /\ \E header \in WireHeaders :
         \E msg \in {NewHSMSControlMessage(header)} :
            /\ called' = [op |-> "ControlMessage.Type", msg |-> msg]
            /\ callRet' = [typ |-> "string", val |-> Type(msg)]
    /\ callPc' = "returned"
    /\ UNCHANGED notCall
----------------------------------------------------------------------------
(* The call scenario: ItemNode.ToBytes                                     *)

\* the items ToBytes is called on: items with variables, what FillVariables
\* made of them, items without variables, and items that are or hold the
\* empty item
ToBytesItems ==
    FillItems
    \cup {r \in UNION {{FillVariables(item, values) : values \in FillMaps(item)} :
                        item \in FillItems} : ~IsPanic(r)}
    \cup HsmsLeaves
    \cup HsmsLists(1)
    \cup {NewEmptyItemNode,
          NewListNode(<<GoItem(NewEmptyItemNode)>>),
          NewListNode(<<GoItem(NewASCIINode(<<97>>)),
                        GoItem(NewListNode(<<GoItem(NewEmptyItemNode)>>))>>)}

\* item.ToBytes()
CallToBytes ==
    /\ callPc = "idle"
    /\ \E item \in ToBytesItems :
         /\ called' = [op |-> "ItemNode.ToBytes", item |-> item]
         /\ callRet' = [typ |-> "bytes", val |-> ToBytes(item)]
    /\ callPc' = "returned"
    /\ UNCHANGED notCall

ItemTypes ==
    {"list", "binary", "boolean", "ascii", "i8", "i1", "i2", "i4", "f8", "f4",
     "u8", "u1", "u2", "u4"}

\* the numbers of values getHeaderBytes is called with: the neighbours of
\* the values at which the byte length of a type needs one length byte more
\* or exceeds MAX_BYTE_SIZE
HeaderSizes ==
    UNION {{n - 1, n, n + 1} :
             n \in {1, 32, 64, 128, 256, 8192, 16384, 32768, 65536, 2097152,
                    4194304, 8388608, 16777216}}

\* getHeaderBytes(typ, size)
CallGetHeaderBytes ==
    /\ callPc = "idle"
    /\ \E typ \in ItemTypes, size \in HeaderSizes :
         /\ called' = [op |-> "getHeaderBytes", itemType |-> typ, size |-> size]
         /\ callRet' = [typ |-> "bytes", val |-> getHeaderBytes(typ, size)]
    /\ callPc' = "returned"
    /\ UNCHANGED notCall
----------------------------------------------------------------------------
(* The call scenario: FillVariables on a list with nested ellipses         *)

VarC == <<99>>

\* lists whose outer ellipsis repeats a list with an ellipsis of its own
NestedItems ==
    {NewListNode(<<GoItem(NewListNode(<<GoStr(VarA), GoStr(Tag(Dots3, 0))>>)),
                   GoStr(Tag(Dots3, 1))>>),
     NewListNode(<<GoItem(NewListNode(
                       <<GoItem(NewASCIINodeVariable(VarA, 0, 0 - 1)),
                         GoItem(NewUintNode(1, <<GoStr(VarX), GoInt(3)>>)),
                         GoStr(Tag(Dots3, 0))>>)),
                   GoStr(VarB),
                   GoStr(Tag(Dots3, 1))>>),
     NewListNode(<<GoStr(VarC),
                   GoItem(NewListNode(<<GoStr(VarA), GoStr(VarB),
                                        GoStr(Tag(Dots3, 0))>>)),
                   GoStr(Tag(Dots3, 1))>>)}

\* the map {"...[0]": inner, "...[1]": outer}
NestedFill(inner, outer) ==
    [n \in {Tag(Dots3, 0), Tag(Dots3, 1)} |->
        IF n = Tag(Dots3, 0) THEN GoInt(inner) ELSE GoInt(outer)]

\* ItemNode.FillVariables with a count for the outer and for the inner ellipsis
CallFillNested ==
    /\ callPc = "idle"
    /\ \E item \in NestedItems, outer \in 0 .. MaxRepeat, inner \in 0 .. MaxRepeat :
         /\ called' = [op |-> "FillVariables", item |-> item,
                       outer |-> outer, inner |-> inner]
         /\ callRet' = FillVariables(item, NestedFill(inner, outer))
    /\ callPc' = "returned"
    /\ UNCHANGED notCall
----------------------------------------------------------------------------
(* The call scenario: sml.Parse on texts with diagnostics                  *)

\* texts with several diagnostics, with a wait bit on a reply message
DiagInputs ==
    {<<83, 49, 70, 49, 32, 72, 45, 62, 69, 10, 60, 85, 49, 91, 51, 93, 32, 51, 48, 48, 32, 49, 62, 10, 46>>,
        \* S1F1 H->E\n<U1[3] 300 1>\n.
     <<83, 49, 70, 49, 32, 72, 45, 62, 69, 10, 60, 76, 91, 49, 93, 10, 32, 60, 85, 49, 32, 51, 48, 48, 62, 10, 32, 60, 65, 91, 49, 93, 32, 34, 97, 98, 34, 62, 10, 62, 10, 46>>,
        \* S1F1 H->E\n<L[1]\n <U1 300>\n <A[1] "ab">\n>\n.
     <<83, 49, 70, 49, 32, 72, 45, 62, 69, 10, 60, 76, 10, 32, 60, 65, 32, 120, 62, 10, 32, 46, 46, 46, 91, 53, 93, 10, 32, 46, 46, 46, 10, 62, 10, 46>>,
        \* S1F1 H->E\n<L\n <A x>\n ...[5]\n ...\n>\n.
     <<83, 49, 70, 49, 32, 72, 45, 62, 69, 10, 60, 85, 49, 32, 51, 48, 48, 32, 49, 32, 52, 48, 48, 62, 10, 46>>,
        \* S1F1 H->E\n<U1 300 1 400>\n.
     <<83, 49, 70, 49, 10, 60, 76, 32, 120, 32, 46, 46, 46, 91, 51, 93, 32, 60, 76, 32, 121, 32, 46, 46, 46, 91, 48, 93, 62, 62, 10, 46>>,
        \* S1F1\n<L x ...[3] <L y ...[0]>>\n.
     <<83, 49, 50, 56, 70, 50, 53, 54, 32, 87, 10, 60, 73, 49, 32, 50, 48, 48, 32, 120, 32, 120, 62, 10, 46>>,
        \* S128F256 W\n<I1 200 x x>\n.
     <<83, 49, 70, 50, 32, 87, 32, 72, 45, 62, 69, 10, 60, 65, 32, 34, 97, 98, 34, 62, 10, 46>>,
        \* S1F2 W H->E\n<A "ab">\n.
     <<83, 49, 70, 50, 32, 87, 32, 46>>,
        \* S1F2 W .
     <<83, 49, 70, 50, 32, 119, 10, 60, 85, 49, 91, 51, 93, 32, 49, 62, 10, 46>>,
        \* S1F2 w\n<U1[3] 1>\n.
     <<83, 49, 70, 50, 32, 87, 32, 72, 45, 62, 69, 10, 46, 10, 83, 49, 70, 49, 32, 87, 32, 72, 45, 62, 69, 10, 46>>,
        \* S1F2 W H->E\n.\nS1F1 W H->E\n.
     <<83, 49, 70, 49, 32, 87, 32, 72, 45, 62, 69, 10, 46, 10, 83, 54, 70, 49, 50, 32, 87, 10, 46>>,
        \* S1F1 W H->E\n.\nS6F12 W\n.
     <<83, 49, 70, 50, 32, 91, 87, 93, 32, 72, 45, 62, 69, 32, 46>>,
        \* S1F2 [W] H->E .
     <<83, 49, 70, 49, 32, 87, 32, 72, 45, 62, 69, 32, 46>>,
        \* S1F1 W H->E .
     <<83, 49, 70, 50, 32, 72, 45, 62, 69, 32, 46>>,
        \* S1F2 H->E .
     <<83, 49, 70, 50, 32, 87, 32, 72, 45, 62, 69, 10, 60, 65, 32, 34, 97, 98, 34, 10, 46>>,
        \* S1F2 W H->E\n<A "ab"\n.
     <<83, 49, 70, 50, 53, 54, 32, 87, 32, 46>>}
        \* S1F256 W .

\* sml.Parse(input)
CallSmlParseText ==
    /\ callPc = "idle"
    /\ \E input \in DiagInputs :
         /\ called' = [op |-> "sml.Parse", input |-> input]
         /\ callRet' = smlParse(input)
    /\ callPc' = "returned"
    /\ UNCHANGED notCall

\* the most values a sized item is given
MaxCount == 3

\* the size tokens of the scenario with the bounds they stand for; hi is
\* read only when the size has an upper bound
SizeTokens ==
    {[text |-> <<91, 50, 93>>, lo |-> 2, hi |-> 2, bounded |-> TRUE],
        \* [2]
     [text |-> <<91, 49, 46, 46, 51, 93>>, lo |-> 1, hi |-> 3, bounded |-> TRUE],
        \* [1..3]
     [text |-> <<91, 50, 46, 46, 93>>, lo |-> 2, hi |-> 0, bounded |-> FALSE],
        \* [2..]
     [text |-> <<91, 46, 46, 49, 93>>, lo |-> 0, hi |-> 1, bounded |-> TRUE],
        \* [..1]
     [text |-> <<91, 48, 93>>, lo |-> 0, hi |-> 0, bounded |-> TRUE],
        \* [0]
     [text |-> <<91, 51, 46, 46, 49, 93>>, lo |-> 3, hi |-> 1, bounded |-> TRUE],
        \* [3..1]
     [text |-> <<91, 32, 49, 32, 46, 46, 32, 50, 32, 93>>, lo |-> 1, hi |-> 2,
      bounded |-> TRUE],
        \* [ 1 .. 2 ]
     [text |-> <<>>, lo |-> 0, hi |-> 0, bounded |-> FALSE]}
        \* no size token

\* the item types of the scenario with the text of one value
SizedTypes ==
    {[name |-> <<85, 49>>, value |-> <<32, 49>>],                  \* U1, ' 1'
     [name |-> <<73, 50>>, value |-> <<32, 45, 49>>],              \* I2, ' -1'
     [name |-> <<70, 52>>, value |-> <<32, 49, 101, 49>>],         \* F4, ' 1e1'
     [name |-> <<66, 79, 79, 76, 69, 65, 78>>, value |-> <<32, 84>>],   \* BOOLEAN, ' T'
     [name |-> <<66>>, value |-> <<32, 48, 120, 49, 48>>],         \* B, ' 0x10'
     [name |-> <<76>>, value |-> <<32, 60, 66, 32, 49, 62>>],      \* L, ' <B 1>'
     [name |-> <<65>>, value |-> <<32, 48, 120, 52, 49>>]}         \* A, ' 0x41'

\* the text of count values, the first one a variable if asked for
ValuesText(typ, count, variable) ==
    Concat([k \in 1 .. count |->
               IF variable /\ k = 1 THEN <<32, 118>> ELSE typ.value])

\* 'S1F1 H->E\n<' type size values '>\n.'
SizedText(typ, size, count, variable) ==
    <<83, 49, 70, 49, 32, 72, 45, 62, 69, 10, 60>> \o typ.name \o size.text
        \o ValuesText(typ, count, variable) \o <<62, 10, 46>>

\* sml.Parse on a message of one item with a size token and count values
CallSmlParseSized ==
    /\ callPc = "idle"
    /\ \E typ \in SizedTypes, size \in SizeTokens, count \in 0 .. MaxCount,
          variable \in BOOLEAN :
         /\ variable => count >= 1 /\ (typ.name = <<65>> => count = 1)
         /\ called' = [op |-> "sml.Parse sized", typ |-> typ.name, size |-> size,
                       count |-> count, variable |-> variable,
                       input |-> SizedText(typ, size, count, variable)]
         /\ callRet' = smlParse(SizedText(typ, size, count, variable))
    /\ callPc' = "returned"
    /\ UNCHANGED notCall

----------------------------------------------------------------------------
(* String() of an ASCII node with a variable                               *)

\* the largest length limit given to NewASCIINodeVariable
MaxLimit == 11

\* the names given to NewASCIINodeVariable: a, var
ASCIIVarNames == {<<97>>, <<118, 97, 114>>}

\* fmt.Sprint(ast.NewASCIINodeVariable(name, minLength, maxLength)) with
\* limits that meet the conditions of the constructor
CallASCIIString ==
    /\ callPc = "idle"
    /\ \E name \in ASCIIVarNames, minLength \in 0 .. MaxLimit,
          maxLength \in (0 - 1) .. MaxLimit :
         /\ maxLength # 0 - 1 => minLength <= maxLength
         /\ called' = [op |-> "ASCIINode.String", name |-> name,
                       minLength |-> minLength, maxLength |-> maxLength]
         /\ callRet' = String(NewASCIINodeVariable(name, minLength, maxLength))
    /\ callPc' = "returned"
    /\ UNCHANGED notCall

----------------------------------------------------------------------------
(* hsms.Parse on whole frames, and ToBytes() of what it returns            *)

\* message texts that are not what ToBytes writes
OtherTexts ==
    {<<37, 1, 2>>,                             \* BOOLEAN of the byte 2
     <<37, 2, 0, 255>>,                        \* BOOLEAN of the bytes 0 and 255
     <<66, 0, 2, 97, 98>>,                     \* A "ab", the length in 2 bytes
     <<67, 0, 0, 1, 97>>,                      \* A "a", the length in 3 bytes
     <<66, 1, 2, 97, 98>>,                     \* A of the length 258, 2 bytes given
     <<66, 1, 0>>,                             \* A of the length 256, no byte given
     <<2, 1, 1, 165, 1, 7>>,                   \* L of the length 257, 1 child given
     <<165, 1, 7, 99>>,                        \* U1 7 and a byte more
     <<1, 1, 165, 1, 7, 165, 1, 8>>,           \* L[1] of U1 7 and an item more
     <<65, 0, 97, 98>>,                        \* A "" and 2 bytes more
     <<1, 0, 1, 0>>,                           \* L[0] and an item more
     <<33, 1, 1, 99>>}                         \* B 1 and a byte more (refused)

\* the frames given to hsms.Parse: data messages of every text, control
\* messages with and without a text
TextFrames ==
    {Frame(DataHeader, t) : t \in GoodTexts \cup OtherTexts}
    \cup {Frame([DataHeader EXCEPT ![6] = s], t) :
            s \in {1, 5, 7, 9}, t \in {<<>>, <<65, 2, 97, 98>>, <<0>>}}

\* msg, ok := hsms.Parse(input) on a frame that fills its backing array
CallParseText ==
    /\ callPc = "idle"
    /\ \E frame \in TextFrames :
         /\ called' = [op |-> "hsms.Parse frame", input |-> SliceOf(frame)]
         /\ callRet' = hsmsParse(SliceOf(frame))
    /\ callPc' = "returned"
    /\ UNCHANGED notCall
----------------------------------------------------------------------------
(* The call scenario: its steps                                            *)

\* the client drops the result
CallReset ==
    /\ callPc = "returned"
    /\ callPc' = "idle"
    /\ called' = NotCalled
    /\ callRet' = NewEmptyItemNode
    /\ UNCHANGED notCall

InitCall == HsmsIdle /\ HeapIdle /\ SmlIdle /\ FillIdle /\ CallIdle /\ LexIdle
    /\ ClientIdle

NextCall ==
    \/ CallNewIntNode
    \/ CallNewUintNode
    \/ CallNewFloatNode
    \/ CallParse
    \/ CallType
    \/ CallToBytes
    \/ CallGetHeaderBytes
    \/ CallFillNested
    \/ CallSmlParseText
    \/ CallSmlParseSized
    \/ CallASCIIString
    \/ CallParseText
    \/ CallReset

SpecCall == InitCall /\ [][NextCall]_vars
----------------------------------------------------------------------------
(* Claims about single calls                                               *)

NumericConstructors == {"NewIntNode", "NewUintNode", "NewFloatNode"}

\* whether the value lies outside the declared range of the variant the
\* call constructs: [-2^(8w-1), 2^(8w-1) - 1] for Iw, [0, 2^(8w) - 1] for Uw,
\* the finite floats of 4 or 8 bytes for Fw
OutsideDeclaredRange(call) ==
    LET v == call.value.v
        w == call.byteSize
    IN IF call.value.k \in FloatKinds /\ (IsInf(v) \/ IsNaN(v)) THEN TRUE
       ELSE CASE call.op = "NewIntNode" ->
                    call.value.k \in IntKinds /\ (v < IntMinOf(w) \/ v > IntMaxOf(w))
              [] call.op = "NewUintNode" ->
                    call.value.k \in IntKinds /\ (v < 0 \/ v > UintMaxOf(w))
              [] call.op = "NewFloatNode" ->
                    call.value.k \in FloatKinds /\ ~floatInRange(w, v)

\* C11: a numeric constructor given a value outside the declared range of
\* its variant fails, whatever the numeric type of the value
C11_OutOfRangeFails ==
    (/\ callPc = "returned"
     /\ called.op \in NumericConstructors
     /\ OutsideDeclaredRange(called))
    => IsPanic(callRet)

\* NewUintNode(8, v) returned an item for a negative v
C11_NegativeAcceptedAsU8 ==
    /\ callPc = "returned"
    /\ called.op = "NewUintNode"
    /\ called.byteSize = 8
    /\ called.value.k \in SignedKinds
    /\ called.value.v < 0
    /\ ~IsPanic(callRet)
    /\ callRet.values = <<called.value.v>>

\* C11 without the 8-byte unsigned variant: every other numeric constructor
\* fails for a value outside the declared range
C11_OutOfRangeFailsButU8 ==
    (/\ callPc = "returned"
     /\ called.op \in NumericConstructors
     /\ ~(called.op = "NewUintNode" /\ called.byteSize = 8)
     /\ OutsideDeclaredRange(called))
    => IsPanic(callRet)

ParseReturned == callPc = "returned" /\ called.op = "hsms.Parse"

\* the value of the 4-byte big-endian length prefix of an input of 4 bytes
\* or more
LengthPrefix(input) == BytesValue(SubSeq(input.array, 1, 4), 0)

\* the total length of the input is 4 plus the value of its length prefix
LengthMatches(input) == input.len >= 4 /\ input.len = 4 + LengthPrefix(input)

\* C12: hsms.Parse fails for every input whose total length is not 4 plus
\* the value of its length prefix, and for every input whose length prefix
\* is below 10
C12_WrongLengthFails ==
    (/\ ParseReturned
     /\ \/ ~LengthMatches(called.input)
        \/ LengthPrefix(called.input) < 10)
    => ~callRet.ok

\* an input of a frame's size whose length prefix says otherwise was refused
C12_MismatchRefused ==
    /\ ParseReturned
    /\ called.input.len >= 14
    /\ LengthPrefix(called.input) >= 10
    /\ called.input.len # 4 + LengthPrefix(called.input)
    /\ ~callRet.ok

\* an input whose length prefix is below 10 and right was refused
C12_ShortPrefixRefused ==
    /\ ParseReturned
    /\ LengthMatches(called.input)
    /\ LengthPrefix(called.input) < 10
    /\ ~callRet.ok

\* the 10 header bytes of an input of 14 bytes or more
HeaderOf(input) == SubSeq(input.array, 5, 14)

ControlSTypes == {1, 2, 3, 4, 5, 6, 7, 9}

\* C13: hsms.Parse succeeds only if the PType byte is 0 and the SType byte
\* is 0, 1, ..., 7 or 9; it then returns a DataMessage exactly when SType is
\* 0 and otherwise a ControlMessage that holds the 10 header bytes
C13_SuccessNeedsKnownType ==
    (ParseReturned /\ callRet.ok)
    => LET h == HeaderOf(called.input)
       IN /\ h[5] = 0
          /\ h[6] \in {0} \cup ControlSTypes
          /\ (callRet.msg.typ = "data message") <=> (h[6] = 0)
          /\ h[6] # 0 => callRet.msg = ControlMessage(h)

\* a frame with SType 9 was decoded to a control message
C13_ControlDecoded ==
    /\ ParseReturned
    /\ callRet.ok
    /\ HeaderOf(called.input)[6] = 9
    /\ callRet.msg = ControlMessage(HeaderOf(called.input))

\* a frame with SType 0 was decoded to a data message
C13_DataDecoded ==
    /\ ParseReturned
    /\ callRet.ok
    /\ HeaderOf(called.input)[6] = 0
    /\ callRet.msg.typ = "data message"

\* frames with PType 0 and an SType that is none, and with another PType,
\* were refused
C13_UnknownTypeRefused ==
    /\ ParseReturned
    /\ LengthMatches(called.input)
    /\ called.input.len >= 14
    /\ \/ HeaderOf(called.input)[5] # 0
       \/ HeaderOf(called.input)[6] \in {8, 10, 255}
    /\ ~callRet.ok

\* the input is a frame by its length prefix, a data message by its header,
\* and its text starts with the header of an item that is not a list
RootIsScalar(input) ==
    /\ LengthMatches(input)
    /\ input.len > 14
    /\ HeaderOf(input)[5] = 0
    /\ HeaderOf(input)[6] = 0
    /\ input.array[15] \div 4 # 0
    /\ input.array[15] % 4 # 0
    /\ input.len >= 15 + (input.array[15] % 4)

\* the format code, the 0-based position of the payload and the length the
\* length bytes give for the item at the start of the text
RootCode(input) == input.array[15] \div 4
RootStart(input) == 15 + (input.array[15] % 4)
RootLength(input) == BytesValue(SubSeq(input.array, 16, RootStart(input)), 0)
RootPayload(input) ==
    SubSeq(input.array, RootStart(input) + 1, RootStart(input) + RootLength(input))

\* the length of the item at the start of the text overruns the input
RootOverruns(input) ==
    /\ RootIsScalar(input)
    /\ RootStart(input) + RootLength(input) > input.len

\* the item at the start of the text holds a value its constructor refuses:
\* an ASCII byte above 0x7F, or a float whose exponent bits are all ones
RootValueRefused(input) ==
    /\ RootIsScalar(input)
    /\ ~RootOverruns(input)
    /\ LET p == RootPayload(input)
       IN \/ RootCode(input) = 16 /\ \E i \in DOMAIN p : p[i] > 127
          \/ /\ RootCode(input) = 36
             /\ Len(p) >= 4
             /\ (p[1] % 128) * 2 + p[2] \div 128 = 255
          \/ /\ RootCode(input) = 32
             /\ Len(p) >= 8
             /\ (p[1] % 128) * 16 + p[2] \div 16 = 2047

\* the header of a data message has the wait bit set and an even function
\* code
WaitBitOnReply(input) ==
    /\ LengthMatches(input)
    /\ input.len >= 14
    /\ HeaderOf(input)[5] = 0
    /\ HeaderOf(input)[6] = 0
    /\ HeaderOf(input)[3] >= 128
    /\ HeaderOf(input)[4] % 2 = 0

\* C14: hsms.Parse returns ok = false for an input whose item length
\* overruns the input, whose item holds a value the constructor of the item
\* refuses, or whose header sets the wait bit with an even function code
C14_MalformedRefused ==
    (/\ ParseReturned
     /\ \/ RootOverruns(called.input)
        \/ RootValueRefused(called.input)
        \/ WaitBitOnReply(called.input))
    => ~callRet.ok

\* hsms.Parse returned a message for an input whose item length overruns
\* it: the item holds bytes that follow the input in its backing array
C14_OverrunAccepted ==
    /\ ParseReturned
    /\ RootOverruns(called.input)
    /\ Cap(called.input) > called.input.len
    /\ callRet.ok
    /\ callRet.msg.dataItem.typ = "ascii"
    /\ Len(callRet.msg.dataItem.value) = RootLength(called.input)

\* C14 for the inputs that fill their backing array
C14_MalformedRefusedAtCapacity ==
    (/\ ParseReturned
     /\ Cap(called.input) = called.input.len
     /\ \/ RootOverruns(called.input)
        \/ RootValueRefused(called.input)
        \/ WaitBitOnReply(called.input))
    => ~callRet.ok

C14_OverrunRefused ==
    /\ ParseReturned
    /\ Cap(called.input) = called.input.len
    /\ RootOverruns(called.input)
    /\ ~callRet.ok

C14_NaNRefused ==
    /\ ParseReturned
    /\ RootValueRefused(called.input)
    /\ RootCode(called.input) \in {32, 36}
    /\ ~callRet.ok

C14_WaitBitRefused ==
    /\ ParseReturned
    /\ WaitBitOnReply(called.input)
    /\ ~callRet.ok

TypeReturned == callPc = "returned" /\ called.op = "ControlMessage.Type"

\* the name the SType of a control message selects
STypeName(sType) ==
    CASE sType = 1 -> "select.req"
      [] sType = 2 -> "select.rsp"
      [] sType = 3 -> "deselect.req"
      [] sType = 4 -> "deselect.rsp"
      [] sType = 5 -> "linktest.req"
      [] sType = 6 -> "linktest.rsp"
      [] sType = 7 -> "reject.req"
      [] sType = 9 -> "separate.req"

C15_STypeEightUndefined ==
    /\ TypeReturned
    /\ called.msg.header[5] = 0
    /\ called.msg.header[6] = 8
    /\ callRet.val = "undefined"

\* Type() returned separate.req
C15_SeparateNamed ==
    /\ TypeReturned
    /\ called.msg.header[5] = 0
    /\ called.msg.header[6] = 9
    /\ callRet.val = "separate.req"

ToBytesReturned == callPc = "returned" /\ called.op = "ItemNode.ToBytes"

RECURSIVE HasUnfilled(_)
\* a variable or an ellipsis remains unfilled in the item or, for a list, in
\* one of its descendants
HasUnfilled(item) ==
    CASE item.typ = "empty" -> FALSE
      [] item.typ = "ascii" -> ~item.isValue
      [] item.typ = "list" ->
            \/ DOMAIN item.variables # {}
            \/ \E i \in DOMAIN item.values : HasUnfilled(item.values[i])
      [] OTHER -> DOMAIN item.variables # {}

RECURSIVE HoldsEmptyItem(_)
\* the item is the empty item, or a list with the empty item among its
\* descendants
HoldsEmptyItem(item) ==
    CASE item.typ = "empty" -> TRUE
      [] item.typ = "list" ->
            \E i \in DOMAIN item.values : HoldsEmptyItem(item.values[i])
      [] OTHER -> FALSE

\* the number of payload bytes of an item that is not a list
PayloadLength(item) ==
    CASE item.typ = "ascii" -> Len(item.value)
      [] item.typ \in {"binary", "boolean"} -> Len(item.values)
      [] OTHER -> Len(item.values) * item.byteSize

\* the format code of the variant
CodeOf(item) ==
    CASE item.typ = "list" -> 0
      [] item.typ = "binary" -> 8
      [] item.typ = "boolean" -> 9
      [] item.typ = "ascii" -> 16
      [] item.typ = "int" /\ item.byteSize = 8 -> 24
      [] item.typ = "int" /\ item.byteSize = 1 -> 25
      [] item.typ = "int" /\ item.byteSize = 2 -> 26
      [] item.typ = "int" /\ item.byteSize = 4 -> 28
      [] item.typ = "float" /\ item.byteSize = 8 -> 32
      [] item.typ = "float" /\ item.byteSize = 4 -> 36
      [] item.typ = "uint" /\ item.byteSize = 8 -> 40
      [] item.typ = "uint" /\ item.byteSize = 1 -> 41
      [] item.typ = "uint" /\ item.byteSize = 2 -> 42
      [] item.typ = "uint" /\ item.byteSize = 4 -> 44

\* the bytes are a format byte of the variant, 1 to 3 length bytes that
\* give the payload length (the number of children for a list), and a
\* payload of that length (the bytes of the children for a list)
FormatLengthPayload(item, bytes) ==
    /\ Len(bytes) >= 2
    /\ bytes[1] \div 4 = CodeOf(item)
    /\ bytes[1] % 4 \in {1, 2, 3}
    /\ Len(bytes) >= 1 + (bytes[1] % 4)
    /\ LET n == bytes[1] % 4
           length == BytesValue(SubSeq(bytes, 2, 1 + n), 0)
           payload == SubSeq(bytes, 2 + n, Len(bytes))
       IN IF item.typ = "list"
          THEN /\ length = Len(item.values)
               /\ payload = Concat([i \in DOMAIN item.values |-> ToBytes(item.values[i])])
          ELSE /\ length = PayloadLength(item)
               /\ Len(payload) = length

\* C16: ToBytes of an item returns the empty sequence exactly when a
\* variable or an ellipsis remains unfilled in the item or in one of its
\* descendants, and otherwise the format byte, the length bytes and the
\* payload
C16_NoBytesIffUnfilled ==
    ToBytesReturned
    => /\ (callRet.val = <<>>) <=> HasUnfilled(called.item)
       /\ callRet.val # <<>> => FormatLengthPayload(called.item, callRet.val)

\* C16, amended: ToBytes of an item returns the empty sequence exactly when
\* a variable or an ellipsis remains unfilled in the item or in one of its
\* descendants, or the item is, or holds, the empty item; otherwise it
\* returns the format byte, the length bytes and the payload
C16_NoBytesIffUnfilledOrEmptyItem ==
    ToBytesReturned
    => /\ (callRet.val = <<>>) <=> (HasUnfilled(called.item) \/ HoldsEmptyItem(called.item))
       /\ callRet.val # <<>> => FormatLengthPayload(called.item, callRet.val)

\* ToBytes of a list that holds the empty item and no variable returned no
\* bytes
C16_EmptyItemInList ==
    /\ ToBytesReturned
    /\ called.item.typ = "list"
    /\ HoldsEmptyItem(called.item)
    /\ ~HasUnfilled(called.item)
    /\ callRet.val = <<>>

\* ToBytes of a list that a fill left with a variable in a descendant
\* returned no bytes
C16_UnfilledBelow ==
    /\ ToBytesReturned
    /\ called.item.typ = "list"
    /\ DOMAIN called.item.variables = {}
    /\ HasUnfilled(called.item)
    /\ callRet.val = <<>>

\* ToBytes of a list with children and no variable returned its bytes
C16_ListEncoded ==
    /\ ToBytesReturned
    /\ called.item.typ = "list"
    /\ Len(called.item.values) >= 2
    /\ callRet.val # <<>>

GetHeaderBytesReturned == callPc = "returned" /\ called.op = "getHeaderBytes"

\* the header of the bytes of an item: the format byte and as many bytes as
\* its low two bits say
ItemHeader(bytes) == SubSeq(bytes, 1, Min2(Len(bytes), 1 + (bytes[1] % 4)))

\* the length value a header carries
HeaderLength(header) == BytesValue(Tail(header), 0)

\* the header has the least number of length bytes for its length value, 1
\* to 3, and the low two bits of its format byte are that number
LeastLengthBytes(header) ==
    /\ Len(header) = 1 + (header[1] % 4)
    /\ HeaderLength(header) <= 16777215
    /\ header[1] % 4 = IF HeaderLength(header) <= 255 THEN 1
                       ELSE IF HeaderLength(header) <= 65535 THEN 2
                       ELSE 3

\* the width of a value of the item type
WidthOf(typ) ==
    CASE typ \in {"i2", "u2"} -> 2
      [] typ \in {"i4", "u4", "f4"} -> 4
      [] typ \in {"i8", "u8", "f8"} -> 8
      [] OTHER -> 1

\* C17: every item encoder emits the least number of length bytes for its
\* length value: 1 up to 255, 2 up to 65535, 3 above, never 0, and the low
\* two bits of the format byte are that number
C17_LeastLengthBytes ==
    /\ (GetHeaderBytesReturned /\ callRet.val # <<>>)
       => /\ LeastLengthBytes(callRet.val)
          /\ HeaderLength(callRet.val) = called.size * WidthOf(called.itemType)
    /\ (ToBytesReturned /\ callRet.val # <<>>)
       => LeastLengthBytes(ItemHeader(callRet.val))

\* getHeaderBytes returned three length bytes for a length of 65536
C17_ThreeLengthBytes ==
    /\ GetHeaderBytesReturned
    /\ called.size * WidthOf(called.itemType) = 65536
    /\ Len(callRet.val) = 4
    /\ callRet.val[1] % 4 = 3

\* an encoder emitted two length bytes for a payload of 256 bytes
C17_TwoLengthBytesEncoded ==
    /\ ToBytesReturned
    /\ callRet.val # <<>>
    /\ callRet.val[1] % 4 = 2
    /\ HeaderLength(ItemHeader(callRet.val)) = 256

\* getHeaderBytes returned two length bytes for a length of 65535
C17_TwoLengthBytes ==
    /\ GetHeaderBytesReturned
    /\ called.size * WidthOf(called.itemType) = 65535
    /\ Len(callRet.val) = 3

\* getHeaderBytes returned one length byte for a length of 0
C17_OneLengthByteForZero ==
    /\ GetHeaderBytesReturned
    /\ called.size = 0
    /\ Len(callRet.val) = 2
    /\ callRet.val[2] = 0

\* getHeaderBytes returned an error for a length above MAX_BYTE_SIZE
C17_TooLongRefused ==
    /\ GetHeaderBytesReturned
    /\ called.size * WidthOf(called.itemType) = 16777216
    /\ callRet.val = <<>>

----------------------------------------------------------------------------
(* C21: nested ellipses filled in one call                                 *)

FillNestedReturned == callPc = "returned" /\ called.op = "FillVariables"

\* the names of the slot at 1-based position k of a list
SlotNames(node, k) ==
    LET posVar == variablesSwapKeyValue(node.variables)
    IN IF (k - 1) \in DOMAIN posVar THEN <<posVar[k - 1]>>
       ELSE Variables(node.values[k])

\* the number of slots in front of the ellipsis of a list
SlotsBeforeEllipsis(node) ==
    node.variables[CHOOSE n \in DOMAIN node.variables : isEllipsis(n)]

\* the names with a suffix put after each
Suffixed(names, suffix) == [x \in DOMAIN names |-> names[x] \o suffix]

\* "[i]"
Index(i) == <<91>> \o Itoa(i) \o <<93>>

\* the names of outer + 1 copies of the slots in front of the outer ellipsis,
\* a list among them with inner + 1 repetitions of the slots in front of its
\* ellipsis; First(i) and Second(j) are the suffixes of the repeat indices
RepeatedNames(item, outer, inner, First(_), Second(_)) ==
    Concat([i \in 1 .. outer + 1 |->
       Concat([k \in 1 .. SlotsBeforeEllipsis(item) |->
          LET slot == item.values[k]
          IN IF slot.typ = "list"
             THEN Concat([j \in 1 .. inner + 1 |->
                     Concat([q \in 1 .. SlotsBeforeEllipsis(slot) |->
                        Suffixed(SlotNames(slot, q),
                                 First(i - 1) \o Second(j - 1))])])
             ELSE Suffixed(SlotNames(item, k), First(i - 1))])])

\* the sizes of the lists among the children of a list
ChildListSizes(node) ==
    LET lists == SelectSeq(node.values, LAMBDA it : it.typ = "list")
    IN [x \in DOMAIN lists |-> Size(lists[x])]

\* the sizes of the repeated inner lists
RepeatedSizes(item, outer, inner) ==
    Concat([i \in 1 .. outer + 1 |->
       LET lists == SelectSeq(SubSeq(item.values, 1, SlotsBeforeEllipsis(item)),
                              LAMBDA it : it.typ = "list")
       IN [x \in DOMAIN lists |-> (inner + 1) * SlotsBeforeEllipsis(lists[x])]])

\* the result holds outer + 1 copies of the repeated slots, each inner list
\* with inner + 1 repetitions of its slots
NestedShape ==
    /\ ~IsPanic(callRet)
    /\ callRet.typ = "list"
    /\ Size(callRet) = (called.outer + 1) * SlotsBeforeEllipsis(called.item)
    /\ ChildListSizes(callRet) = RepeatedSizes(called.item, called.outer, called.inner)

\* C21 as stated: when the outer ellipsis is filled with n1 and the ellipsis
\* of a list in the repeated slots with n2 in one fill, the result holds
\* n1 + 1 copies of the inner list, each with n2 + 1 repetitions of its slots,
\* and every variable inside is suffixed [i][j] with the outer repeat index i
\* and the inner repeat index j.
C21_NestedSuffixedTwice ==
    FillNestedReturned =>
        /\ NestedShape
        /\ Variables(callRet) =
              RepeatedNames(called.item, called.outer, called.inner,
                            LAMBDA i : Index(i), LAMBDA j : Index(j))

\* C21 amended: the same for n1 >= 1 and n2 >= 1; an ellipsis filled with 0
\* adds no repetition and no suffix, so the variables inside the inner list
\* are suffixed [i] when n2 = 0, [j] when n1 = 0 and not at all when both are 0.
C21_NestedSuffixedPerRepeat ==
    FillNestedReturned =>
        /\ NestedShape
        /\ Variables(callRet) =
              RepeatedNames(called.item, called.outer, called.inner,
                            LAMBDA i : IF called.outer >= 1 THEN Index(i) ELSE <<>>,
                            LAMBDA j : IF called.inner >= 1 THEN Index(j) ELSE <<>>)

\* outer filled with 2 and inner with 1: 3 copies of the inner list of 2
\* repetitions, the last name of the form a[2][1]
C21_ThreeByTwo ==
    /\ FillNestedReturned
    /\ called.outer = 2 /\ called.inner = 1
    /\ NestedShape
    /\ Variables(callRet) = <<VarA \o Index(0) \o Index(0), VarA \o Index(0) \o Index(1),
                              VarA \o Index(1) \o Index(0), VarA \o Index(1) \o Index(1),
                              VarA \o Index(2) \o Index(0), VarA \o Index(2) \o Index(1)>>

\* outer filled with 1 and inner with 0: the names carry the outer index only
C21_InnerZeroOneSuffix ==
    /\ FillNestedReturned
    /\ called.outer = 1 /\ called.inner = 0
    /\ Variables(callRet) = <<VarA \o Index(0), VarA \o Index(1)>>

----------------------------------------------------------------------------
(* C24: the order of the diagnostics of sml.Parse                          *)

SmlParseReturned == callPc = "returned" /\ called.op = "sml.Parse"

IsSizeError(d) == d.text = "data item size overflow"
IsRecovered(d) == d.text \in {"panic", "Recovered from panic"}

\* the diagnostics that are recorded where they are met
MetInPlace(ds) == SelectSeq(ds, LAMBDA d : ~IsSizeError(d) /\ ~IsRecovered(d))

\* C24 as stated: in the errors and in the warnings that sml.Parse returns
\* the position of a diagnostic is never before the position of the
\* diagnostic in front of it.
C24_DiagnosticsInScanOrder ==
    SmlParseReturned =>
        /\ InScanOrder(callRet.errors)
        /\ InScanOrder(callRet.warnings)

\* C24 amended: the diagnostics are in the order they were detected, which
\* is the scan order for all but the size error of a data item and the
\* diagnostics of a recovered panic; those are recorded when the item has
\* been parsed, after the diagnostics of its content, with the position of
\* the size token or of the '<' of the item.
C24_InScanOrderButSizeAndPanic ==
    SmlParseReturned =>
        /\ InScanOrder(MetInPlace(callRet.errors))
        /\ InScanOrder(MetInPlace(callRet.warnings))

\* a size error stands behind the error of a value of its item
C24_SizeErrorBehindValueError ==
    /\ SmlParseReturned
    /\ Len(callRet.errors) = 2
    /\ callRet.errors[1].text = "range overflow"
    /\ IsSizeError(callRet.errors[2])
    /\ ~NotAfter(callRet.errors[1], callRet.errors[2])

\* the warning of a recovered panic stands behind a warning of its content
C24_PanicWarningBehind ==
    /\ SmlParseReturned
    /\ Len(callRet.warnings) = 2
    /\ IsRecovered(callRet.warnings[2])
    /\ ~NotAfter(callRet.warnings[1], callRet.warnings[2])

\* three errors of the values of one item, in scan order
C24_ValueErrorsInOrder ==
    /\ SmlParseReturned
    /\ Len(callRet.errors) >= 2
    /\ InScanOrder(callRet.errors)
    /\ callRet.errors[1] # callRet.errors[2]

----------------------------------------------------------------------------
(* C25: the wait bit W on a reply message                                  *)

\* the tokens of the input without the comments
HeaderTokens(input) ==
    SelectSeq(TokenStream(lex(input)), LAMBDA t : t.typ # "Comment")

\* the function code of a stream function token
FunctionOf(t) == Atoi(SubSeq(t.val, IndexOf(t.val, Str_F) + 2, Len(t.val)))

\* the positions k of the W tokens that stand behind a stream function
\* token with an even function code
ReplyWaitBits(ts) ==
    {k \in 2 .. Len(ts) :
        /\ ts[k].typ = "WaitBit" /\ ts[k].val = Str_W
        /\ ts[k - 1].typ = "StreamFunction" /\ FunctionOf(ts[k - 1]) % 2 = 0}

IsWaitBitError(d) == d.text = "wait bit cannot be true on reply message"

\* the diagnostic is at the position of the token
At(d, t) == d.line = t.line /\ d.col = t.col

\* the diagnostic is behind the position of the token
Behind(d, t) == d.line > t.line \/ (d.line = t.line /\ d.col > t.col)

\* C25: for every W token behind a stream function token with an even
\* function code sml.Parse records one error, at the position of the W
\* token; it goes on parsing, so that the message is built with the wait
\* bit false or a later diagnostic is recorded, and it returns no message.
C25_WaitBitOnReplyIsError ==
    SmlParseReturned =>
        LET ts == HeaderTokens(called.input)
            kept == smlParseKeep(called.input)
        IN /\ \A k \in ReplyWaitBits(ts) :
                 Len(SelectSeq(callRet.errors,
                               LAMBDA d : IsWaitBitError(d) /\ At(d, ts[k]))) = 1
           /\ Len(SelectSeq(callRet.errors, IsWaitBitError))
                 = Cardinality(ReplyWaitBits(ts))
           /\ ReplyWaitBits(ts) # {} =>
                 /\ callRet.messages = <<>>
                 /\ \A m \in Range(kept.messages) : ~IsPanic(m)
                 /\ \A m \in Range(kept.messages) : m.function % 2 = 0 => m.waitBit # 1
                 /\ \/ \E m \in Range(kept.messages) : m.function % 2 = 0 /\ m.waitBit = 0
                    \/ \E d \in Range(callRet.errors) \cup Range(callRet.warnings) :
                          Behind(d, ts[CHOOSE k \in ReplyWaitBits(ts) : TRUE])

\* 'S1F2 W H->E' with a text: one error at Ln 1, Col 6, no message returned,
\* and the message that was parsed has the wait bit false
C25_ReplyWithWaitBit ==
    /\ SmlParseReturned
    /\ ReplyWaitBits(HeaderTokens(called.input)) = {2}
    /\ Len(callRet.errors) = 1
    /\ IsWaitBitError(callRet.errors[1])
    /\ callRet.errors[1].line = 1 /\ callRet.errors[1].col = 6
    /\ callRet.messages = <<>>
    /\ Len(smlParseKeep(called.input).messages) = 1
    /\ smlParseKeep(called.input).messages[1].waitBit = 0
    /\ smlParseKeep(called.input).messages[1].dataItem = NewASCIINode(<<97, 98>>)

\* the size error of the text is recorded behind the error of the wait bit
C25_LaterErrorRecorded ==
    /\ SmlParseReturned
    /\ Len(callRet.errors) = 2
    /\ IsWaitBitError(callRet.errors[1])
    /\ IsSizeError(callRet.errors[2])
    /\ callRet.messages = <<>>

----------------------------------------------------------------------------
(* C26: the size token of a data item                                      *)

SizedReturned == callPc = "returned" /\ called.op = "sml.Parse sized"

\* the item is an ASCII item in variable mode, which has no element count
SizedASCIIVariable == called.typ = <<65>> /\ called.variable

\* the count of the item is outside the bounds of its size token
CountOutside ==
    /\ called.size.text # <<>>
    /\ \/ called.count < called.size.lo
       \/ called.size.bounded /\ called.count > called.size.hi

SizeErrors == SelectSeq(callRet.errors, IsSizeError)

\* C26: for an item with a size token whose element count is outside the
\* bounds of the token sml.Parse records exactly one size error, at the
\* line and column of the size token; with the count inside the bounds, or
\* without a size token, it records no size error.
C26_SizeErrorIffOutside ==
    (SizedReturned /\ ~SizedASCIIVariable) =>
        IF CountOutside
        THEN /\ Len(SizeErrors) = 1
             /\ SizeErrors[1].line = 2
             /\ SizeErrors[1].col = 2 + Len(called.typ)
             /\ callRet.messages = <<>>
        ELSE /\ callRet.errors = <<>>
             /\ Len(callRet.messages) = 1

\* '<B[2..] 0x10>': a count below the lower bound of a size without an
\* upper bound, one error at Ln 2, Col 3
C26_BelowOpenLowerBound ==
    /\ SizedReturned
    /\ called.typ = <<66>>
    /\ ~called.size.bounded /\ called.size.lo = 2
    /\ called.count = 1
    /\ Len(callRet.errors) = 1
    /\ IsSizeError(callRet.errors[1])
    /\ callRet.errors[1].line = 2 /\ callRet.errors[1].col = 3

\* a count above the lower bound of a size without an upper bound: no error
C26_AboveOpenLowerBound ==
    /\ SizedReturned
    /\ called.size.text # <<>>
    /\ ~called.size.bounded
    /\ called.count = 3
    /\ callRet.errors = <<>>
    /\ Len(callRet.messages) = 1

\* a list of 3 children with the size [..1]: one error
C26_ListAboveUpperBound ==
    /\ SizedReturned
    /\ called.typ = <<76>>
    /\ called.size.hi = 1 /\ called.size.lo = 0 /\ called.size.bounded
    /\ called.count = 3
    /\ Len(SizeErrors) = 1

\* an ASCII item in variable mode with a size token: no size error
C26_ASCIIVariableUnchecked ==
    /\ SizedReturned
    /\ SizedASCIIVariable
    /\ called.size.text = <<91, 50, 93>>
    /\ callRet.errors = <<>>

----------------------------------------------------------------------------
(* C27: the print form of an ASCII node with a variable                    *)

ASCIIStringReturned == callPc = "returned" /\ called.op = "ASCIINode.String"

\* '<A' decoration ' ' name '>'
Decorated(decoration) == <<60, 65>> \o decoration \o <<32>> \o called.name \o <<62>>

\* '[' k ']', '[' k '..]', '[..' k ']', '[' k '..' m ']'
Exactly(k) == <<91>> \o Itoa(k) \o <<93>>
AtLeast(k) == <<91>> \o Itoa(k) \o <<46, 46, 93>>
AtMost(k) == <<91, 46, 46>> \o Itoa(k) \o <<93>>
Between(k, m) == <<91>> \o Itoa(k) \o <<46, 46>> \o Itoa(m) \o <<93>>

\* C27 as stated: an ASCII node with a variable prints as <A var> with no
\* decoration for (0, -1), [k] for min = max = k, [k..] for max = -1,
\* [..k] for min = 0 and max = k, and [k..m] otherwise.
C27_DecorationWithShortUpperLimit ==
    ASCIIStringReturned =>
        callRet = Decorated(
            IF called.minLength = 0 /\ called.maxLength = 0 - 1 THEN <<>>
            ELSE IF called.minLength = called.maxLength THEN Exactly(called.maxLength)
            ELSE IF called.maxLength = 0 - 1 THEN AtLeast(called.minLength)
            ELSE IF called.minLength = 0 THEN AtMost(called.maxLength)
            ELSE Between(called.minLength, called.maxLength))

\* C27 amended: an ASCII node with a variable prints as <A var> with no
\* decoration for (0, -1), [k] for min = max = k, [k..] for max = -1, and
\* [k..m] otherwise, a lower limit of 0 included: (0, k) prints as [0..k].
C27_DecorationWithBothLimits ==
    ASCIIStringReturned =>
        callRet = Decorated(
            IF called.minLength = 0 /\ called.maxLength = 0 - 1 THEN <<>>
            ELSE IF called.minLength = called.maxLength THEN Exactly(called.maxLength)
            ELSE IF called.maxLength = 0 - 1 THEN AtLeast(called.minLength)
            ELSE Between(called.minLength, called.maxLength))

\* NewASCIINodeVariable("var", 0, 1) prints as '<A[0..1] var>'
C27_ZeroToOne ==
    /\ ASCIIStringReturned
    /\ called.name = <<118, 97, 114>>
    /\ called.minLength = 0 /\ called.maxLength = 1
    /\ callRet = <<60, 65, 91, 48, 46, 46, 49, 93, 32, 118, 97, 114, 62>>

\* NewASCIINodeVariable("var", 2, 10) prints as '<A[2..10] var>'
C27_TwoToTen ==
    /\ ASCIIStringReturned
    /\ called.name = <<118, 97, 114>>
    /\ called.minLength = 2 /\ called.maxLength = 10
    /\ callRet = <<60, 65, 91, 50, 46, 46, 49, 48, 93, 32, 118, 97, 114, 62>>

\* NewASCIINodeVariable("a", 0, 0) prints as '<A[0] a>'
C27_ZeroOnly ==
    /\ ASCIIStringReturned
    /\ called.name = <<97>>
    /\ called.minLength = 0 /\ called.maxLength = 0
    /\ callRet = <<60, 65, 91, 48, 93, 32, 97, 62>>

----------------------------------------------------------------------------
(* C28: ToBytes() of the message hsms.Parse returns                        *)

ParseFrameReturned == callPc = "returned" /\ called.op = "hsms.Parse frame"

\* the bytes given to hsms.Parse
InputBytes == SubSeq(called.input.array, 1, called.input.len)

\* the message text of the input
InputText == SubSeq(InputBytes, 15, Len(InputBytes))

\* C28: for every byte sequence on which hsms.Parse succeeds, ToBytes() of
\* the returned message equals the input: no accepted byte is dropped,
\* ignored or normalised.
C28_AcceptedInputIsToBytes ==
    (ParseFrameReturned /\ callRet.ok) => HSMSToBytes(callRet.msg) = InputBytes

\* hsms.Parse accepts an ASCII item whose 2 length bytes say 258 with 2
\* bytes of text: the first length byte is lost and ToBytes() writes the
\* item with one length byte
C28_LengthByteLost ==
    /\ ParseFrameReturned
    /\ InputText = <<66, 1, 2, 97, 98>>
    /\ callRet.ok
    /\ HSMSToBytes(callRet.msg) = Frame(DataHeader, <<65, 2, 97, 98>>)

\* hsms.Parse accepts a text with bytes behind its item and drops them
C28_TrailingBytesDropped ==
    /\ ParseFrameReturned
    /\ InputText = <<165, 1, 7, 99>>
    /\ callRet.ok
    /\ HSMSToBytes(callRet.msg) = Frame(DataHeader, <<165, 1, 7>>)

\* hsms.Parse accepts a boolean byte other than 0 and 1, ToBytes() writes 1
C28_BooleanNormalised ==
    /\ ParseFrameReturned
    /\ InputText = <<37, 1, 2>>
    /\ callRet.ok
    /\ HSMSToBytes(callRet.msg) = Frame(DataHeader, <<37, 1, 1>>)

\* hsms.Parse accepts a control message with a text and drops the text
C28_ControlTextDropped ==
    /\ ParseFrameReturned
    /\ InputBytes[10] # 0
    /\ InputText # <<>>
    /\ callRet.ok
    /\ HSMSToBytes(callRet.msg) = <<0, 0, 0, 10>> \o SubSeq(InputBytes, 5, 14)

\* the texts of the scenario that are what ToBytes writes are returned as
\* they came
C28_EncodedTextReturned ==
    /\ ParseFrameReturned
    /\ InputText = <<1, 2, 105, 2, 2, 1, 37, 1, 1>>
    /\ callRet.ok
    /\ HSMSToBytes(callRet.msg) = InputBytes

\* what holds of every accepted input: ToBytes() of the message is a frame
\* that hsms.Parse takes back to the same message, with the header of the
\* input and no more bytes than the input
C28_ToBytesParsesBack ==
    (ParseFrameReturned /\ callRet.ok) =>
        /\ hsmsParse(SliceOf(HSMSToBytes(callRet.msg))) = callRet
        /\ SubSeq(HSMSToBytes(callRet.msg), 5, 14) = SubSeq(InputBytes, 5, 14)
        /\ Len(HSMSToBytes(callRet.msg)) <= Len(InputBytes)
============================================================================
